---- MODULE Spec2Model ----
(***************************************************************************)
(* A model of the linker/validator core of rasn-compiler:                  *)
(*   rasn-compiler/src/validator/mod.rs          Validator, Validate       *)
(*   rasn-compiler/src/validator/linking/utils.rs  lookup helpers          *)
(*   rasn-compiler/src/lib.rs                    internal_compile          *)
(* TLD names are the integers 1..NumNames; their integer order stands for  *)
(* the lexicographic order of the BTreeMap<String, ToplevelDeclaration>.   *)
(***************************************************************************)
EXTENDS Integers, Sequences, FiniteSets, TLC

\* ------------------------------------------------------------------ bounds
NumNames == 3       \* names a TLD can have
MaxRef == 2         \* names 1..MaxRef occur as the target of a by-name reference

Names == 1..NumNames
RefNames == 1..MaxRef
NoName == 0         \* Option<String>::None

\* ------------------------------------------------------------ Result, Option
Ok == [ok |-> TRUE]
OkWith(x) == [ok |-> TRUE, val |-> x]
Err(e) == [ok |-> FALSE, err |-> e]

\* ------------------------------------------------------------------ ASN1Value
None == [v |-> "None"]
Integer(n) == [v |-> "Integer", n |-> n]
ElsewhereDeclaredValue(id) == [v |-> "ElsewhereDeclaredValue", identifier |-> id]
BitString(bits) == [v |-> "BitString", bits |-> bits]
OctetString(octets) == [v |-> "OctetString", octets |-> octets]

\* ----------------------------------------------------------------- Constraint
ValueRange(min, max) == [s |-> "ValueRange", min |-> min, max |-> max]
SingleValue(val) == [s |-> "SingleValue", value |-> val]
Element(el) == [e |-> "Element", elem |-> el]
SetOperation(b, o) == [e |-> "SetOperation", base |-> b, operant |-> o]
SubtypeConstraint(set) == [c |-> "SubtypeConstraint", set |-> set]
TableConstraint == [c |-> "TableConstraint"]

\* ------------------------------------------------------------------- ASN1Type
IntegerType(cs) == [t |-> "Integer", constraints |-> cs]
BitStringType(cs) == [t |-> "BitString", constraints |-> cs]
CharacterStringType(cs) == [t |-> "CharacterString", constraints |-> cs]
BooleanType == [t |-> "Boolean"]
OctetStringType == [t |-> "OctetString"]
EnumeratedType(ms) == [t |-> "Enumerated", members |-> ms]
SequenceType(ms) == [t |-> "Sequence", members |-> ms]
ChoiceType(os) == [t |-> "Choice", options |-> os]
ChoiceSelectionType(choice, opt) ==
    [t |-> "ChoiceSelectionType", choice_name |-> choice, selected_option |-> opt]
InformationObjectFieldReference(cls) ==
    [t |-> "InformationObjectFieldReference", class |-> cls]
Member(n, ty) == [m |-> "Member", name |-> n, type |-> ty]
ComponentsOf(n) == [m |-> "ComponentsOf", of |-> n]
Enumeral(n, i) == [name |-> n, index |-> i]

\* ------------------------------------------------------------------ ClassLink
NoClass == [l |-> "None"]
ByName(n) == [l |-> "ByName", name |-> n]
ByReference(n) == [l |-> "ByReference", class |-> n]

\* ------------------------------------------------------------ ASN1Information
ObjectClass == [i |-> "ObjectClass"]
Object == [i |-> "Object"]
ObjectSet(vals) == [i |-> "ObjectSet", values |-> vals]
ObjectSetReference(n) == [o |-> "Reference", name |-> n]
InlineObject == [o |-> "Inline"]

\* -------------------------------------------------------- ToplevelDeclaration
\* index is Option<(Rc<ModuleReference>, usize)>: NoIndex, or the name of the
\* module header and the position of the declaration in the module.
NoIndex == <<>>
TypeDecl(n, ty) == [kind |-> "Type", name |-> n, type |-> ty, index |-> NoIndex]
ValueDecl(n, ty, val) ==
    [kind |-> "Value", name |-> n, type |-> ty, value |-> val, supertypes |-> <<>>,
     index |-> NoIndex]
InformationDecl(n, cl, val) ==
    [kind |-> "Information", name |-> n, class |-> cl, value |-> val, index |-> NoIndex]
NoTld == [kind |-> "None"]

\* --------------------------------------------------------------- diagnostics
ValidatorError(de, details, kind) ==
    [data_element |-> de, details |-> details, kind |-> kind]
GrammarError(details, kind) == [details |-> details, kind |-> kind]
\* impl From<GrammarError> for ValidatorError, used by the ? operator in link
FromGrammarError(g) == ValidatorError(NoName, g.details, g.kind)

specify_data_element(e, n) == [e EXCEPT !.data_element = n]

\* ------------------------------------------------------- the index (BTreeMap)
\* The greatest/least key of a non-empty key set, and the keys in ascending
\* order (the order of BTreeMap::iter and BTreeMap::into_iter).
MaxOf(S) == CHOOSE x \in S : \A y \in S : y <= x
MinOf(S) == CHOOSE x \in S : \A y \in S : x <= y

\* Mutant: the keys are iterated from the greatest to the least.
RECURSIVE Ascending_Reversed(_)
Ascending_Reversed(S) ==
    IF S = {} THEN <<>> ELSE <<MaxOf(S)>> \o Ascending_Reversed(S \ {MaxOf(S)})

RECURSIVE Ascending(_)
Ascending(S) == IF S = {} THEN <<>> ELSE <<MinOf(S)>> \o Ascending(S \ {MinOf(S)})

Get(map, k) == IF k \in DOMAIN map THEN map[k] ELSE NoTld
Remove(map, k) == [x \in DOMAIN map \ {k} |-> map[x]]
Insert(map, k, tld) == [x \in DOMAIN map \cup {k} |-> IF x = k THEN tld ELSE map[x]]
EmptyIndex == [x \in {} |-> NoTld]

\* Mutant: a pair whose name the map already has is dropped.
RECURSIVE CollectFrom_KeepFirst(_, _)
CollectFrom_KeepFirst(list, map) ==
    IF list = <<>> THEN map
    ELSE CollectFrom_KeepFirst(Tail(list),
             IF Head(list).name \in DOMAIN map THEN map
             ELSE Insert(map, Head(list).name, Head(list)))

\* Validator::new: collect() of (name, tld) pairs; a later pair with the same
\* name replaces the earlier one.
RECURSIVE CollectFrom(_, _)
CollectFrom(list, map) ==
    IF list = <<>> THEN map
    ELSE CollectFrom(Tail(list), Insert(map, Head(list).name, Head(list)))

Validator_new(list) == CollectFrom(list, EmptyIndex)

\* ------------------------------------------------------------------ Validate
\* Mutant: a range with equal bounds is rejected too.
Constraint_validate_Strict(c) ==
    IF /\ c.c = "SubtypeConstraint"
       /\ c.set.e = "Element"
       /\ c.set.elem.s = "ValueRange"
       /\ c.set.elem.min.v = "Integer"
       /\ c.set.elem.max.v = "Integer"
       /\ c.set.elem.min.n >= c.set.elem.max.n
    THEN Err(ValidatorError(NoName, "Mininum value exceeds maximum value!",
                            "InvalidConstraintsError"))
    ELSE Ok

\* impl Validate for Constraint
Constraint_validate(c) ==
    IF /\ c.c = "SubtypeConstraint"
       /\ c.set.e = "Element"
       /\ c.set.elem.s = "ValueRange"
       /\ c.set.elem.min.v = "Integer"
       /\ c.set.elem.max.v = "Integer"
       /\ c.set.elem.min.n > c.set.elem.max.n
    THEN Err(ValidatorError(NoName, "Mininum value exceeds maximum value!",
                            "InvalidConstraintsError"))
    ELSE Ok

\* impl Validate for Integer / BitString / CharacterString:
\* for c in &self.constraints { c.validate()?; } Ok(())
RECURSIVE Constraints_validate(_)
Constraints_validate(cs) ==
    IF cs = <<>> THEN Ok
    ELSE IF ~Constraint_validate(Head(cs)).ok THEN Constraint_validate(Head(cs))
    ELSE Constraints_validate(Tail(cs))

\* impl Validate for ASN1Type
ASN1Type_validate(ty) ==
    IF ty.t \in {"Integer", "BitString", "CharacterString"}
    THEN Constraints_validate(ty.constraints)
    ELSE Ok

\* impl Validate for ToplevelDeclaration
ToplevelDeclaration_validate(tld) ==
    IF tld.kind = "Type"
    THEN IF ~ASN1Type_validate(tld.type).ok
         THEN Err(specify_data_element(ASN1Type_validate(tld.type).err, tld.name))
         ELSE Ok
    ELSE Ok

\* Mutant: the fold stops at the first declaration that fails validation.
RECURSIVE ValidateFold_FailFast(_, _, _, _)
ValidateFold_FailFast(map, order, out, errors) ==
    IF order = <<>> THEN [tlds |-> out, errors |-> errors]
    ELSE LET tld == map[Head(order)]
             r == ToplevelDeclaration_validate(tld)
         IN IF r.ok
            THEN ValidateFold_FailFast(map, Tail(order), Append(out, tld), errors)
            ELSE [tlds |-> out, errors |-> Append(errors, r.err)]

\* Mutant: a declaration that fails validation is reported and returned too.
RECURSIVE ValidateFold_KeepInvalid(_, _, _, _)
ValidateFold_KeepInvalid(map, order, out, errors) ==
    IF order = <<>> THEN [tlds |-> out, errors |-> errors]
    ELSE LET tld == map[Head(order)]
             r == ToplevelDeclaration_validate(tld)
         IN IF r.ok
            THEN ValidateFold_KeepInvalid(map, Tail(order), Append(out, tld), errors)
            ELSE ValidateFold_KeepInvalid(map, Tail(order), Append(out, tld),
                                          Append(errors, r.err))

\* The fold of Validator::validate over self.tlds.into_iter(), from the
\* accumulator (tlds, errors).
RECURSIVE ValidateFold(_, _, _, _)
ValidateFold(map, order, out, errors) ==
    IF order = <<>> THEN [tlds |-> out, errors |-> errors]
    ELSE LET tld == map[Head(order)]
             r == ToplevelDeclaration_validate(tld)
         IN IF r.ok
            THEN ValidateFold(map, Tail(order), Append(out, tld), errors)
            ELSE ValidateFold(map, Tail(order), out, Append(errors, r.err))

\* -------------------------------------------------- linking/utils.rs helpers
\* The enumerated value `name` that a TLD defines, asked with the containing
\* type's name (type_name # NoName) or without it.
get_distinguished_or_enum_value(tld, type_name, name) ==
    IF /\ tld.kind = "Type"
       /\ tld.type.t = "Enumerated"
       /\ type_name \in {NoName, tld.name}
       /\ \E i \in 1..Len(tld.type.members) : tld.type.members[i].name = name
    THEN LET i == CHOOSE j \in 1..Len(tld.type.members) :
                      /\ tld.type.members[j].name = name
                      /\ \A k \in 1..(j - 1) : tld.type.members[k].name # name
         IN Integer(tld.type.members[i].index)
    ELSE None

\* for (_, tld) in tlds.iter() { if let Some(value) = ... { return Some(value) } }
RECURSIVE FirstEnumValue(_, _, _, _)
FirstEnumValue(tlds, order, type_name, name) ==
    IF order = <<>> THEN None
    ELSE IF get_distinguished_or_enum_value(tlds[Head(order)], type_name, name) # None
    THEN get_distinguished_or_enum_value(tlds[Head(order)], type_name, name)
    ELSE FirstEnumValue(tlds, Tail(order), type_name, name)

\* Mutant: one scan, which takes the first declaration that defines the name
\* under any type.
find_tld_or_enum_value_by_name_SingleScan(type_name, name, tlds) ==
    IF Get(tlds, name).kind = "Value" THEN Get(tlds, name).value
    ELSE FirstEnumValue(tlds, Ascending(DOMAIN tlds), NoName, name)

find_tld_or_enum_value_by_name(type_name, name, tlds) ==
    IF Get(tlds, name).kind = "Value" THEN Get(tlds, name).value
    ELSE IF FirstEnumValue(tlds, Ascending(DOMAIN tlds), type_name, name) # None
    THEN FirstEnumValue(tlds, Ascending(DOMAIN tlds), type_name, name)
    ELSE FirstEnumValue(tlds, Ascending(DOMAIN tlds), NoName, name)

\* 2u8.pow(7 - i)
RECURSIVE Pow2(_)
Pow2(n) == IF n = 0 THEN 1 ELSE 2 * Pow2(n - 1)

\* Mutant: the first bit of a chunk is the least significant one.
RECURSIVE FoldByte_LsbFirst(_, _, _)
FoldByte_LsbFirst(byte, i, acc) ==
    IF i >= Len(byte) THEN acc
    ELSE FoldByte_LsbFirst(byte, i + 1, (acc + (IF byte[i + 1] THEN Pow2(i) ELSE 0)) % 256)

\* Mutant: the accumulator has seven bits.
RECURSIVE FoldByte_Narrow(_, _, _)
FoldByte_Narrow(byte, i, acc) ==
    IF i >= Len(byte) THEN acc
    ELSE FoldByte_Narrow(byte, i + 1, (acc + (IF byte[i + 1] THEN Pow2(7 - i) ELSE 0)) % 128)

\* byte.iter().enumerate().fold(0u8, |acc, (i, bit)| acc + if *bit {2^(7-i)} else {0})
RECURSIVE FoldByte(_, _, _)
FoldByte(byte, i, acc) ==
    IF i >= Len(byte) THEN acc
    ELSE FoldByte(byte, i + 1, (acc + (IF byte[i + 1] THEN Pow2(7 - i) ELSE 0)) % 256)

RECURSIVE OctetsFrom(_, _)
OctetsFrom(bits, octets) ==
    IF bits = <<>> THEN OkWith(octets)
    ELSE IF Len(bits) < 8
    THEN Err(GrammarError("Binary octet string value needs to be a multiple of 8 bits!",
                          "LinkerError"))
    ELSE OctetsFrom(SubSeq(bits, 9, Len(bits)),
                    Append(octets, FoldByte(SubSeq(bits, 1, 8), 0, 0)))

bit_string_to_octet_string(bits) == OctetsFrom(bits, <<>>)

\* ------------------------------------------- type-level linking (intermediate)
\* The types nested one level below a SEQUENCE or CHOICE.
IsMember(x) == x.m = "Member"
Fields(ty) == IF ty.t = "Sequence" THEN ty.members
              ELSE IF ty.t = "Choice" THEN ty.options
              ELSE <<>>
WithFields(ty, fs) == IF ty.t = "Sequence" THEN [ty EXCEPT !.members = fs]
                      ELSE IF ty.t = "Choice" THEN [ty EXCEPT !.options = fs]
                      ELSE ty

is_class(tld) == tld.kind = "Information" /\ tld.value.i = "ObjectClass"
is_object_set(tld) == tld.kind = "Information" /\ tld.value.i = "ObjectSet"

\* 1. class references
RECURSIVE type_references_class_by_name(_)
type_references_class_by_name(ty) ==
    \/ ty.t = "InformationObjectFieldReference"
    \/ \E i \in 1..Len(Fields(ty)) :
          IsMember(Fields(ty)[i]) /\ type_references_class_by_name(Fields(ty)[i].type)

\* Every class of the model has one fixed-type field, of type BOOLEAN: a
\* resolved class-field reference becomes that type.
RECURSIVE type_resolve_class_reference(_, _)
type_resolve_class_reference(ty, tlds) ==
    IF ty.t = "InformationObjectFieldReference"
    THEN IF is_class(Get(tlds, ty.class)) THEN BooleanType ELSE ty
    ELSE WithFields(ty, [i \in 1..Len(Fields(ty)) |->
            IF IsMember(Fields(ty)[i])
            THEN [Fields(ty)[i] EXCEPT !.type = type_resolve_class_reference(@, tlds)]
            ELSE Fields(ty)[i]])

info_resolve_class_reference(tld, tlds) ==
    IF tld.class.l = "ByName" /\ is_class(Get(tlds, tld.class.name))
    THEN [tld EXCEPT !.class = ByReference(tld.class.name)]
    ELSE tld

\* 2. COMPONENTS OF
contains_components_of_notation(ty) ==
    ty.t = "Sequence" /\ \E i \in 1..Len(ty.members) : ty.members[i].m = "ComponentsOf"

IsSequenceTld(tld) == tld.kind = "Type" /\ tld.type.t = "Sequence"

RECURSIVE ExpandComponents(_, _)
ExpandComponents(members, tlds) ==
    IF members = <<>> THEN <<>>
    ELSE LET h == Head(members)
         IN (IF h.m = "ComponentsOf" /\ IsSequenceTld(Get(tlds, h.of))
             THEN Get(tlds, h.of).type.members
             ELSE <<h>>) \o ExpandComponents(Tail(members), tlds)

link_components_of_notation(ty, tlds) ==
    IF ty.t = "Sequence" THEN [ty EXCEPT !.members = ExpandComponents(@, tlds)] ELSE ty

\* 3. choice selection types
has_choice_selection_type(ty) == ty.t = "ChoiceSelectionType"

OptionIndex(options, name) ==
    {i \in 1..Len(options) : IsMember(options[i]) /\ options[i].name = name}

link_choice_selection_type(ty, tlds) ==
    IF ty.t # "ChoiceSelectionType" THEN OkWith(ty)
    ELSE LET c == Get(tlds, ty.choice_name)
         IN IF /\ c.kind = "Type"
               /\ c.type.t = "Choice"
               /\ OptionIndex(c.type.options, ty.selected_option) # {}
            THEN OkWith(c.type.options[MinOf(OptionIndex(c.type.options,
                                                        ty.selected_option))].type)
            ELSE Err(ValidatorError(NoName,
                     "Could not find the selected alternative of the CHOICE",
                     "MissingDependency"))

\* 4. object set references
references_object_set_by_name(value) ==
    value.i = "ObjectSet" /\ \E i \in 1..Len(value.values) : value.values[i].o = "Reference"

RECURSIVE InlineObjectSets(_, _)
InlineObjectSets(vals, tlds) ==
    IF vals = <<>> THEN <<>>
    ELSE LET h == Head(vals)
         IN (IF h.o = "Reference" /\ is_object_set(Get(tlds, h.name))
             THEN Get(tlds, h.name).value.values
             ELSE <<h>>) \o InlineObjectSets(Tail(vals), tlds)

link_object_set_reference(value, tlds) ==
    IF value.i = "ObjectSet" THEN [value EXCEPT !.values = InlineObjectSets(@, tlds)]
    ELSE value

\* 5. constraint references
IsReference(val) == val.v = "ElsewhereDeclaredValue"

ElementHasReference(el) ==
    IF el.s = "ValueRange" THEN IsReference(el.min) \/ IsReference(el.max)
    ELSE IsReference(el.value)

RECURSIVE SetHasReference(_)
SetHasReference(set) ==
    IF set.e = "Element" THEN ElementHasReference(set.elem)
    ELSE ElementHasReference(set.base) \/ SetHasReference(set.operant)

ConstraintHasReference(c) == c.c = "SubtypeConstraint" /\ SetHasReference(c.set)

ConstraintsOf(ty) ==
    IF ty.t \in {"Integer", "BitString", "CharacterString"} THEN ty.constraints ELSE <<>>

RECURSIVE contains_constraint_reference(_)
contains_constraint_reference(ty) ==
    \/ \E i \in 1..Len(ConstraintsOf(ty)) : ConstraintHasReference(ConstraintsOf(ty)[i])
    \/ \E i \in 1..Len(Fields(ty)) :
          IsMember(Fields(ty)[i]) /\ contains_constraint_reference(Fields(ty)[i].type)

LinkValue(val, type_name, tlds) ==
    IF IsReference(val) /\ find_tld_or_enum_value_by_name(type_name, val.identifier, tlds) # None
    THEN find_tld_or_enum_value_by_name(type_name, val.identifier, tlds)
    ELSE val

LinkElement(el, type_name, tlds) ==
    IF el.s = "ValueRange"
    THEN [el EXCEPT !.min = LinkValue(@, type_name, tlds),
                    !.max = LinkValue(@, type_name, tlds)]
    ELSE [el EXCEPT !.value = LinkValue(@, type_name, tlds)]

RECURSIVE LinkSet(_, _, _)
LinkSet(set, type_name, tlds) ==
    IF set.e = "Element" THEN [set EXCEPT !.elem = LinkElement(@, type_name, tlds)]
    ELSE [set EXCEPT !.base = LinkElement(@, type_name, tlds),
                     !.operant = LinkSet(@, type_name, tlds)]

LinkConstraint(c, type_name, tlds) ==
    IF c.c = "SubtypeConstraint" THEN [c EXCEPT !.set = LinkSet(@, type_name, tlds)] ELSE c

\* The type with every constraint reference that resolves replaced by its value.
RECURSIVE LinkedType(_, _, _)
LinkedType(ty, type_name, tlds) ==
    IF ty.t \in {"Integer", "BitString", "CharacterString"}
    THEN [ty EXCEPT !.constraints =
            [i \in 1..Len(ty.constraints) |-> LinkConstraint(ty.constraints[i], type_name, tlds)]]
    ELSE WithFields(ty, [i \in 1..Len(Fields(ty)) |->
            IF IsMember(Fields(ty)[i])
            THEN [Fields(ty)[i] EXCEPT !.type = LinkedType(@, type_name, tlds)]
            ELSE Fields(ty)[i]])

\* ToplevelDeclaration::has_constraint_reference
tld_has_constraint_reference(tld) ==
    tld.kind = "Type" /\ contains_constraint_reference(tld.type)

\* ToplevelDeclaration::link_constraint_reference: Ok(true) when every
\* reference was linked, Ok(false) when one could not be; val is that flag.
link_constraint_reference(tld, tlds) ==
    IF tld.kind = "Type"
    THEN LET linked == [tld EXCEPT !.type = LinkedType(@, tld.name, tlds)]
         IN [ok |-> TRUE, val |-> ~contains_constraint_reference(linked.type), tld |-> linked]
    ELSE [ok |-> TRUE, val |-> FALSE, tld |-> tld]

\* collect_supertypes: the value of a ValueDefinition is fitted to its type; a
\* BIT STRING literal given for an OCTET STRING is translated to octets.
collect_supertypes(tld, tlds) ==
    IF tld.kind = "Value" /\ tld.type.t = "OctetString" /\ tld.value.v = "BitString"
    THEN LET r == bit_string_to_octet_string(tld.value.bits)
         IN IF r.ok THEN OkWith([tld EXCEPT !.value = OctetString(r.val)])
            ELSE Err(FromGrammarError(r.err))
    ELSE OkWith(tld)

\* ------------------------------------------------------------------ the state
VARIABLES
    input,      \* the Vec<ToplevelDeclaration> handed to Validator::new
    pc,         \* the position of the run in Validator::validate / link
    tlds,       \* self.tlds, the index
    keys,       \* link's worklist
    key,        \* the key popped last (NoName before the first pop)
    held,       \* the declaration removed from the index and being updated
    warnings,   \* link's warnings
    result,     \* what link (on Err) and validate return
    log,        \* history: every pop and every sub-task run, in order
    parsed,     \* internal_compile: the (header, tlds) pairs that asn_spec returned
    modules,    \* internal_compile: the declarations grouped by module name
    first,      \* the outcome of an earlier run of validate, kept for comparison
    args,       \* the arguments of a helper function called on its own
    builder,    \* the RasnCompiler<S> value of a compile command being built
    calls,      \* history: the builder methods called, in order
    written     \* the file compile wrote

\* The compile command and what it did.
command == <<builder, calls, written>>

\* What lies outside the Validator: it is untouched by link and validate.
outer == <<parsed, modules, first, args, command>>

vars == <<input, pc, tlds, keys, key, held, warnings, result, log, outer>>

NoArgs == <<>>
NoBuilder == [state |-> "None"]
NoPath == <<"">>

NoResult == [r |-> "none"]
Ran(k, task, out) == [key |-> k, task |-> task, out |-> out]

\* ------------------------------------------------------------- the inputs
Bits7 == <<TRUE, FALSE, TRUE, TRUE, FALSE, FALSE, FALSE>>
Range(a, b) == SubtypeConstraint(Element(ValueRange(a, b)))

ValueShapes(n) ==
    { ValueDecl(n, IntegerType(<<>>), Integer(1)),
      ValueDecl(n, OctetStringType, BitString(Bits7)) }

TypeShapes(n) ==
    { TypeDecl(n, IntegerType(<<Range(Integer(1), Integer(2))>>)),
      TypeDecl(n, IntegerType(<<Range(Integer(2), Integer(1))>>)),
      TypeDecl(n, SequenceType(<<Member("a", IntegerType(<<Range(Integer(2), Integer(1))>>))>>)),
      TypeDecl(n, ChoiceType(<<Member("ping", IntegerType(<<>>)), Member("pong", BooleanType)>>)),
      TypeDecl(n, ChoiceType(<<Member("ping", IntegerType(<<>>))>>)),
      TypeDecl(n, ChoiceType(<<Member("pong", SequenceType(<<Member("b", BooleanType)>>))>>)),
      TypeDecl(n, ChoiceType(<<Member("pong",
                     IntegerType(<<Range(Integer(1), ElsewhereDeclaredValue(1))>>))>>)) }
    \cup { TypeDecl(n, IntegerType(<<Range(Integer(1), ElsewhereDeclaredValue(r))>>)) : r \in RefNames }
    \cup { TypeDecl(n, SequenceType(<<ComponentsOf(r), Member("c", BitStringType(<<>>))>>)) : r \in RefNames }
    \cup { TypeDecl(n, ChoiceSelectionType(r, "pong")) : r \in RefNames }
    \cup { TypeDecl(n, InformationObjectFieldReference(r)) : r \in RefNames }
    \cup { TypeDecl(n, EnumeratedType(<<Enumeral(r, 0)>>)) : r \in RefNames }

InformationShapes(n) ==
    { InformationDecl(n, NoClass, ObjectClass),
      InformationDecl(n, NoClass, ObjectSet(<<InlineObject>>)) }
    \cup { InformationDecl(n, ByReference(r), Object) : r \in {1} }
    \cup { InformationDecl(n, ByName(r), Object) : r \in RefNames }
    \cup { InformationDecl(n, ByName(r), ObjectClass) : r \in RefNames }
    \cup { InformationDecl(n, NoClass, ObjectSet(<<ObjectSetReference(r)>>)) : r \in RefNames }

Shapes(n) == ValueShapes(n) \cup TypeShapes(n) \cup InformationShapes(n)

\* The list of the declarations f gives to the names from n on, in name order,
\* each under its name; f[m] = NoTld leaves the name m out.
RECURSIVE ListOf(_, _)
ListOf(f, n) ==
    IF n > NumNames THEN <<>>
    ELSE (IF f[n] = NoTld THEN <<>> ELSE <<[f[n] EXCEPT !.name = n]>>) \o ListOf(f, n + 1)

Init ==
    /\ \E f \in [Names -> Shapes(NoName) \cup {NoTld}] : input = ListOf(f, 1)
    /\ pc = "new"
    /\ tlds = EmptyIndex
    /\ keys = <<>>
    /\ key = NoName
    /\ held = NoTld
    /\ warnings = <<>>
    /\ result = NoResult
    /\ log = <<>>
    /\ parsed = <<>>
    /\ modules = EmptyIndex
    /\ first = NoResult
    /\ builder = NoBuilder
    /\ calls = <<>>
    /\ written = NoPath
    /\ args = NoArgs

\* ------------------------------------------------------ Validator's predicates
\* Mutant: a ByReference link counts as a reference by name.
references_class_by_name_AnyLink(map, k) ==
    LET t == Get(map, k)
    IN IF t.kind = "Type" THEN type_references_class_by_name(t.type)
       ELSE IF t.kind = "Information" THEN t.class.l # "None"
       ELSE FALSE

\* Mutant: only type definitions are asked for class references.
references_class_by_name_TypesOnly(map, k) ==
    LET t == Get(map, k)
    IN IF t.kind = "Type" THEN type_references_class_by_name(t.type) ELSE FALSE

references_class_by_name(map, k) ==
    LET t == Get(map, k)
    IN IF t.kind = "Type" THEN type_references_class_by_name(t.type)
       ELSE IF t.kind = "Information" THEN t.class.l = "ByName"
       ELSE FALSE

has_components_of_notation(map, k) ==
    LET t == Get(map, k)
    IN IF t.kind = "Type" THEN contains_components_of_notation(t.type) ELSE FALSE

has_choice_selection_type_at(map, k) ==
    LET t == Get(map, k)
    IN IF t.kind = "Type" THEN has_choice_selection_type(t.type) ELSE FALSE

references_object_set_by_name_at(map, k) ==
    LET t == Get(map, k)
    IN IF t.kind = "Information" THEN references_object_set_by_name(t.value) ELSE FALSE

has_constraint_reference(map, k) ==
    LET t == Get(map, k)
    IN IF t.kind # "None" THEN tld_has_constraint_reference(t) ELSE FALSE

\* The worklist of link: the keys of the value definitions, then the others,
\* each in index order.
IsValueKey(map, k) == map[k].kind = "Value"

\* Mutant: the other declarations are chained before the value definitions.
link_keys_ValuesLast(map) ==
    SelectSeq(Ascending(DOMAIN map), LAMBDA k : ~IsValueKey(map, k))
    \o SelectSeq(Ascending(DOMAIN map), LAMBDA k : IsValueKey(map, k))

link_keys(map) ==
    SelectSeq(Ascending(DOMAIN map), LAMBDA k : IsValueKey(map, k))
    \o SelectSeq(Ascending(DOMAIN map), LAMBDA k : ~IsValueKey(map, k))

\* ------------------------------------------------------------------- actions
NewValidator ==
    /\ pc = "new"
    /\ tlds' = Validator_new(input)
    /\ pc' = "validate"
    /\ UNCHANGED <<outer, input, keys, key, held, warnings, result, log>>

\* validate calls link, which builds the worklist
LinkEnter ==
    /\ pc = "validate"
    /\ warnings' = <<>>
    /\ keys' = link_keys(tlds)
    /\ pc' = "loop"
    /\ UNCHANGED <<outer, input, tlds, key, held, result, log>>

\* while let Some(key) = keys.pop()
Pop ==
    /\ pc = "loop"
    /\ keys # <<>>
    /\ key' = keys[Len(keys)]
    /\ keys' = SubSeq(keys, 1, Len(keys) - 1)
    /\ log' = Append(log, Ran(keys[Len(keys)], "pop", "ok"))
    /\ pc' = "class"
    /\ UNCHANGED <<outer, input, tlds, held, warnings, result>>

\* Ok((self, warnings))
LinkOk ==
    /\ pc = "loop"
    /\ keys = <<>>
    /\ pc' = "linked"
    /\ UNCHANGED <<outer, input, tlds, keys, key, held, warnings, result, log>>

\* Mutant: the declaration is read from the index and left in it.
Enter_NoRemove(guard, heldpc, skippc) ==
    /\ IF guard
       THEN /\ held' = Get(tlds, key)
            /\ tlds' = tlds
            /\ pc' = heldpc
       ELSE /\ pc' = skippc
            /\ UNCHANGED <<held, tlds>>
    /\ UNCHANGED <<outer, input, keys, key, warnings, result, log>>

\* A sub-task's guard and, when it holds, its self.tlds.remove(&key).
Enter(guard, heldpc, skippc) ==
    /\ IF guard
       THEN /\ held' = Get(tlds, key)
            /\ tlds' = Remove(tlds, key)
            /\ pc' = heldpc
       ELSE /\ pc' = skippc
            /\ UNCHANGED <<held, tlds>>
    /\ UNCHANGED <<outer, input, keys, key, warnings, result, log>>

\* The ? operator of link: the declaration in hand is dropped, link returns Err.
Fail(task, e) ==
    /\ pc' = "link_err"
    /\ result' = Err(e)
    /\ held' = NoTld
    /\ log' = Append(log, Ran(key, task, "err"))
    /\ UNCHANGED <<outer, input, tlds, keys, key, warnings>>

\* 1. class reference resolution
BeginClass ==
    /\ pc = "class"
    /\ Enter(references_class_by_name(tlds, key), "class_held", "components")

\* Mutant: an information declaration whose class link stays ByName is
\* reported by a warning.
EndClass_Warn ==
    /\ pc = "class_held"
    /\ tlds' = IF held.kind = "Type"
               THEN Insert(tlds, held.name,
                           [held EXCEPT !.type = type_resolve_class_reference(@, tlds)])
               ELSE IF held.kind = "Information"
               THEN Insert(tlds, held.name, info_resolve_class_reference(held, tlds))
               ELSE tlds
    /\ warnings' = IF /\ held.kind = "Information"
                      /\ info_resolve_class_reference(held, tlds).class.l = "ByName"
                   THEN Append(warnings, ValidatorError(held.name,
                            "Failed to resolve class reference", "MissingDependency"))
                   ELSE warnings
    /\ held' = NoTld
    /\ log' = Append(log, Ran(key, "class", "ok"))
    /\ pc' = "components"
    /\ UNCHANGED <<outer, input, keys, key, result>>

EndClass ==
    /\ pc = "class_held"
    /\ tlds' = IF held.kind = "Type"
               THEN Insert(tlds, held.name,
                           [held EXCEPT !.type = type_resolve_class_reference(@, tlds)])
               ELSE IF held.kind = "Information"
               THEN Insert(tlds, held.name, info_resolve_class_reference(held, tlds))
               ELSE tlds
    /\ held' = NoTld
    /\ log' = Append(log, Ran(key, "class", "ok"))
    /\ pc' = "components"
    /\ UNCHANGED <<outer, input, keys, key, warnings, result>>

\* 2. COMPONENTS OF expansion
BeginComponents ==
    /\ pc = "components"
    /\ Enter(has_components_of_notation(tlds, key), "components_held", "choice")

EndComponents ==
    /\ pc = "components_held"
    /\ tlds' = IF held.kind = "Type"
               THEN Insert(tlds, held.name,
                           [held EXCEPT !.type = link_components_of_notation(@, tlds)])
               ELSE tlds
    /\ held' = NoTld
    /\ log' = Append(log, Ran(key, "components", "ok"))
    /\ pc' = "choice"
    /\ UNCHANGED <<outer, input, keys, key, warnings, result>>

\* 3. choice selection linking
BeginChoice ==
    /\ pc = "choice"
    /\ Enter(has_choice_selection_type_at(tlds, key), "choice_held", "object_set")

\* Mutant: the error of link_choice_selection_type is dropped and the
\* declaration goes back as it was.
EndChoice_Continue ==
    /\ pc = "choice_held"
    /\ tlds' = IF held.kind = "Type" /\ link_choice_selection_type(held.type, tlds).ok
               THEN Insert(tlds, held.name,
                      [held EXCEPT !.type = link_choice_selection_type(@, tlds).val])
               ELSE Insert(tlds, held.name, held)
    /\ held' = NoTld
    /\ log' = Append(log, Ran(key, "choice", "ok"))
    /\ pc' = "object_set"
    /\ UNCHANGED <<outer, input, keys, key, warnings, result>>

\* Mutant: the declaration with its selection resolved is not put back.
EndChoice_NoReinsert ==
    /\ pc = "choice_held"
    /\ IF held.kind = "Type" /\ ~link_choice_selection_type(held.type, tlds).ok
       THEN Fail("choice", link_choice_selection_type(held.type, tlds).err)
            /\ UNCHANGED <<outer, input, tlds, keys, key, warnings>>
       ELSE /\ tlds' = tlds
            /\ held' = NoTld
            /\ log' = Append(log, Ran(key, "choice", "ok"))
            /\ pc' = "object_set"
            /\ UNCHANGED <<outer, input, keys, key, warnings, result>>

EndChoice ==
    /\ pc = "choice_held"
    /\ IF held.kind = "Type" /\ ~link_choice_selection_type(held.type, tlds).ok
       THEN Fail("choice", link_choice_selection_type(held.type, tlds).err)
       ELSE /\ tlds' = IF held.kind = "Type"
                       THEN Insert(tlds, held.name,
                              [held EXCEPT !.type = link_choice_selection_type(@, tlds).val])
                       ELSE tlds
            /\ held' = NoTld
            /\ log' = Append(log, Ran(key, "choice", "ok"))
            /\ pc' = "object_set"
            /\ UNCHANGED <<outer, input, keys, key, warnings, result>>

\* 4. object set reference resolution
BeginObjectSet ==
    /\ pc = "object_set"
    /\ Enter(references_object_set_by_name_at(tlds, key), "object_set_held", "constraint")

EndObjectSet ==
    /\ pc = "object_set_held"
    /\ tlds' = IF held.kind = "Information"
               THEN Insert(tlds, held.name,
                           [held EXCEPT !.value = link_object_set_reference(@, tlds)])
               ELSE tlds
    /\ held' = NoTld
    /\ log' = Append(log, Ran(key, "object_set", "ok"))
    /\ pc' = "constraint"
    /\ UNCHANGED <<outer, input, keys, key, warnings, result>>

\* 5. constraint reference resolution
CouldNotFind(k) ==
    ValidatorError(k, "Could not find toplevel declaration to remove!", "MissingDependency")

FailedToLink(n) ==
    ValidatorError(n, "Failed to link cross-reference to elsewhere defined value in constraint",
                   "MissingDependency")

BeginConstraint ==
    /\ pc = "constraint"
    /\ IF has_constraint_reference(tlds, key) /\ key \notin DOMAIN tlds
       THEN Fail("constraint", CouldNotFind(key))
       ELSE Enter(has_constraint_reference(tlds, key), "constraint_held", "supertypes")

\* Mutant: Ok(false) of link_constraint_reference ends link with an error.
EndConstraint_FailFast ==
    /\ pc = "constraint_held"
    /\ LET r == link_constraint_reference(held, tlds)
       IN IF ~r.val
          THEN Fail("constraint", FailedToLink(r.tld.name))
          ELSE /\ tlds' = Insert(tlds, r.tld.name, r.tld)
               /\ held' = NoTld
               /\ log' = Append(log, Ran(key, "constraint", "true"))
               /\ pc' = "supertypes"
               /\ UNCHANGED <<outer, input, keys, key, warnings, result>>

\* Mutant: a declaration with a reference that did not resolve is queued again.
EndConstraint_Retry ==
    /\ pc = "constraint_held"
    /\ LET r == link_constraint_reference(held, tlds)
       IN /\ warnings' = IF ~r.val THEN Append(warnings, FailedToLink(r.tld.name))
                         ELSE warnings
          /\ keys' = IF ~r.val THEN Append(keys, key) ELSE keys
          /\ tlds' = Insert(tlds, r.tld.name, r.tld)
          /\ held' = NoTld
          /\ log' = Append(log, Ran(key, "constraint", IF r.val THEN "true" ELSE "false"))
          /\ pc' = "supertypes"
          /\ UNCHANGED <<outer, input, key, result>>

EndConstraint ==
    /\ pc = "constraint_held"
    /\ LET r == link_constraint_reference(held, tlds)
       IN IF ~r.ok
          THEN Fail("constraint", FromGrammarError(r.err))
          ELSE /\ warnings' = IF ~r.val THEN Append(warnings, FailedToLink(r.tld.name))
                              ELSE warnings
               /\ tlds' = Insert(tlds, r.tld.name, r.tld)
               /\ held' = NoTld
               /\ log' = Append(log, Ran(key, "constraint", IF r.val THEN "true" ELSE "false"))
               /\ pc' = "supertypes"
               /\ UNCHANGED <<outer, input, keys, key, result>>

\* Mutant: only value definitions reach collect_supertypes.
BeginSupertypes_ValuesOnly ==
    /\ pc = "supertypes"
    /\ Enter(key \in DOMAIN tlds /\ Get(tlds, key).kind = "Value", "supertypes_held", "loop")

\* collect_supertypes
BeginSupertypes ==
    /\ pc = "supertypes"
    /\ Enter(key \in DOMAIN tlds, "supertypes_held", "loop")

EndSupertypes ==
    /\ pc = "supertypes_held"
    /\ LET r == collect_supertypes(held, tlds)
       IN IF ~r.ok
          THEN Fail("supertypes", r.err)
          ELSE /\ tlds' = Insert(tlds, key, r.val)
               /\ held' = NoTld
               /\ log' = Append(log, Ran(key, "supertypes", "ok"))
               /\ pc' = "loop"
               /\ UNCHANGED <<outer, input, keys, key, warnings, result>>

\* (self, warnings) = self.link()?  when link returned Err
ValidateErr ==
    /\ pc = "link_err"
    /\ pc' = "done"
    /\ UNCHANGED <<outer, input, tlds, keys, key, held, warnings, result, log>>

\* the fold of validate over the linked index
ValidateOk ==
    /\ pc = "linked"
    /\ result' = OkWith(ValidateFold(tlds, Ascending(DOMAIN tlds), <<>>, warnings))
    /\ pc' = "done"
    /\ UNCHANGED <<outer, input, tlds, keys, key, held, warnings, log>>

Next ==
    \/ NewValidator
    \/ LinkEnter
    \/ Pop
    \/ LinkOk
    \/ BeginClass
    \/ EndClass
    \/ BeginComponents
    \/ EndComponents
    \/ BeginChoice
    \/ EndChoice
    \/ BeginObjectSet
    \/ EndObjectSet
    \/ BeginConstraint
    \/ EndConstraint
    \/ BeginSupertypes
    \/ EndSupertypes
    \/ ValidateErr
    \/ ValidateOk

Spec == Init /\ [][Next]_vars

\* ------------------------------------------------------ validate, called again
\* Validator::new(list).validate() once validate has returned: the outcome of
\* the run that ended is kept in first, with the list it was given.
Again(list, mode) ==
    /\ pc = "done"
    /\ first = NoResult
    /\ first' = [mode |-> mode, input |-> input, result |-> result]
    /\ input' = list
    /\ pc' = "new"
    /\ tlds' = EmptyIndex
    /\ keys' = <<>>
    /\ key' = NoName
    /\ held' = NoTld
    /\ warnings' = <<>>
    /\ result' = NoResult
    /\ log' = <<>>
    /\ UNCHANGED <<parsed, modules, args, command>>

\* the declarations validate returned are validated again
Revalidate ==
    /\ pc = "done"
    /\ result.ok
    /\ Again(result.val.tlds, "output")

\* the same list is validated again
Rerun == Again(input, "input")

NextAgain ==
    \/ Next
    \/ Revalidate
    \/ Rerun

SpecAgain == Init /\ [][NextAgain]_vars

\* validate is called on the list with one more declaration, of a name that
\* the list does not have
Extend ==
    \E n \in Names \ {input[i].name : i \in 1..Len(input)} :
        \E u \in Shapes(n) : Again(Append(input, u), "extended")

NextExtend ==
    \/ Next
    \/ Extend

SpecExtend == Init /\ [][NextExtend]_vars

\* ------------------------------------------------- any list of declarations
\* Validator::new is given a list in any order, in which a name can occur more
\* than once (the declarations of several modules, chained by internal_compile).
MaxLen == 3         \* declarations in the list

ListShapes(n) ==
    { ValueDecl(n, IntegerType(<<>>), Integer(1)),
      ValueDecl(n, OctetStringType, BitString(Bits7)),
      TypeDecl(n, IntegerType(<<Range(Integer(2), Integer(1))>>)),
      TypeDecl(n, IntegerType(<<Range(Integer(1), ElsewhereDeclaredValue(1))>>)),
      TypeDecl(n, SequenceType(<<ComponentsOf(1), Member("c", BitStringType(<<>>))>>)),
      TypeDecl(n, ChoiceType(<<Member("ping", IntegerType(<<>>)), Member("pong", BooleanType)>>)),
      TypeDecl(n, ChoiceSelectionType(1, "pong")),
      InformationDecl(n, NoClass, ObjectClass),
      InformationDecl(n, ByName(1), Object),
      InformationDecl(n, NoClass, ObjectSet(<<ObjectSetReference(1)>>)) }

InitList ==
    /\ \E n \in 0..MaxLen : \E list \in [1..n -> UNION {ListShapes(m) : m \in Names}] :
           input = list
    /\ pc = "new"
    /\ tlds = EmptyIndex
    /\ keys = <<>>
    /\ key = NoName
    /\ held = NoTld
    /\ warnings = <<>>
    /\ result = NoResult
    /\ log = <<>>
    /\ parsed = <<>>
    /\ modules = EmptyIndex
    /\ first = NoResult
    /\ builder = NoBuilder
    /\ calls = <<>>
    /\ written = NoPath
    /\ args = NoArgs

SpecList == InitList /\ [][NextAgain]_vars

\* ------------------------------------------------- validation of one declaration
\* ToplevelDeclaration::validate as a function of the declaration alone: the
\* declaration is drawn from a set with every kind of constraint and bound.
MaxInt == 2             \* integer bounds of a value range are 0..MaxInt
MaxConstraints == 2     \* constraints attached to one type

Bounds == {None, ElsewhereDeclaredValue(1), BitString(<<>>)} \cup {Integer(n) : n \in 0..MaxInt}

ConstraintShapes ==
    { Range(a, b) : a \in Bounds, b \in Bounds }
    \cup { SubtypeConstraint(Element(SingleValue(a))) : a \in Bounds }
    \cup { SubtypeConstraint(SetOperation(ValueRange(Integer(1), Integer(0)),
                                          Element(ValueRange(Integer(0), Integer(1))))),
           SubtypeConstraint(SetOperation(ValueRange(Integer(0), Integer(1)),
                                          Element(ValueRange(Integer(1), Integer(0))))),
           TableConstraint }

\* A type definition of INTEGER, BIT STRING or CharacterString with the
\* constraints cs.
Constrained(t, cs) ==
    TypeDecl(1, IF t = "Integer" THEN IntegerType(cs)
                ELSE IF t = "BitString" THEN BitStringType(cs)
                ELSE CharacterStringType(cs))

InitValidate ==
    /\ \/ \E m \in 0..MaxConstraints : \E cs \in [1..m -> ConstraintShapes] :
              \E t \in {"Integer", "BitString", "CharacterString"} : held = Constrained(t, cs)
       \/ held \in Shapes(1)
    /\ pc = "tld"
    /\ input = <<>>
    /\ tlds = EmptyIndex
    /\ keys = <<>>
    /\ key = NoName
    /\ warnings = <<>>
    /\ result = NoResult
    /\ log = <<>>
    /\ parsed = <<>>
    /\ modules = EmptyIndex
    /\ first = NoResult
    /\ builder = NoBuilder
    /\ calls = <<>>
    /\ written = NoPath
    /\ args = NoArgs

ValidateTld ==
    /\ pc = "tld"
    /\ result' = ToplevelDeclaration_validate(held)
    /\ pc' = "validated"
    /\ UNCHANGED <<outer, input, tlds, keys, key, held, warnings, log>>

SpecValidate == InitValidate /\ [][ValidateTld]_vars

\* ---------------------------------------------------------- internal_compile
\* asn_spec returned the modules of the sources, each a header and its
\* declarations; a header is its place in the list and its name, so that two
\* headers can have one name.
MaxModules == 2     \* modules that the sources hold
MaxTlds == 2        \* declarations of one module

ModuleNames == {"M", "N"}
Header(id, nm) == [id |-> id, name |-> nm]
Index(header, item_no) == [header |-> header, item |-> item_no]

CompileShapes(n) ==
    { ValueDecl(n, IntegerType(<<>>), Integer(1)),
      TypeDecl(n, IntegerType(<<Range(Integer(2), Integer(1))>>)),
      TypeDecl(n, IntegerType(<<Range(Integer(1), ElsewhereDeclaredValue(1))>>)),
      TypeDecl(n, SequenceType(<<ComponentsOf(1), Member("c", BitStringType(<<>>))>>)),
      TypeDecl(n, ChoiceSelectionType(1, "pong")),
      InformationDecl(n, ByName(1), Object),
      InformationDecl(n, NoClass, ObjectSet(<<ObjectSetReference(1)>>)) }

\* tld.set_index(header_ref.clone(), index)
set_index(tld, header, item_no) == [tld EXCEPT !.index = Index(header, item_no)]

\* tld.get_index()
get_index(tld) == tld.index

\* The declarations of the modules from the m-th on, each with its index, in
\* one list: flat_map over the modules, enumerate over the declarations.
RECURSIVE StampFrom(_, _)
StampFrom(mods, m) ==
    IF m > Len(mods) THEN <<>>
    ELSE [i \in 1..Len(mods[m].tlds) |->
             set_index(mods[m].tlds[i], Header(m, mods[m].name), i - 1)]
         \o StampFrom(mods, m + 1)

\* The declaration lists a module can have.
ModuleTlds ==
    UNION { [1..c -> UNION {CompileShapes(k) : k \in RefNames}] : c \in 0..MaxTlds }

InitCompile ==
    /\ \E n \in 0..MaxModules :
          \E names \in [1..n -> ModuleNames] : \E lists \in [1..n -> ModuleTlds] :
              parsed = [m \in 1..n |-> [name |-> names[m], tlds |-> lists[m]]]
    /\ pc = "parsed"
    /\ input = <<>>
    /\ tlds = EmptyIndex
    /\ keys = <<>>
    /\ key = NoName
    /\ held = NoTld
    /\ warnings = <<>>
    /\ result = NoResult
    /\ log = <<>>
    /\ modules = EmptyIndex
    /\ first = NoResult
    /\ builder = NoBuilder
    /\ calls = <<>>
    /\ written = NoPath
    /\ args = NoArgs

\* The loop over the sources: every declaration gets its index and joins the
\* list that Validator::new is given.
Stamp ==
    /\ pc = "parsed"
    /\ input' = StampFrom(parsed, 1)
    /\ pc' = "new"
    /\ UNCHANGED <<tlds, keys, key, held, warnings, result, log, outer>>

\* The key of a declaration's group: the name of its module, or the default
\* String when it has no index.
GroupKey(tld) == IF get_index(tld) = NoIndex THEN "" ELSE get_index(tld).header.name

\* Mutant: a declaration is put in front of the others of its group.
RECURSIVE GroupFold_Prepend(_, _)
GroupFold_Prepend(items, groups) ==
    IF items = <<>> THEN groups
    ELSE LET tld == Head(items)
             k == GroupKey(tld)
         IN GroupFold_Prepend(Tail(items),
                IF k \notin DOMAIN groups THEN Insert(groups, k, <<tld>>)
                ELSE Insert(groups, k, <<tld>> \o groups[k]))

\* Mutant: a declaration whose group exists replaces the group.
RECURSIVE GroupFold_Replace(_, _)
GroupFold_Replace(items, groups) ==
    IF items = <<>> THEN groups
    ELSE GroupFold_Replace(Tail(items), Insert(groups, GroupKey(Head(items)), <<Head(items)>>))

\* valid_items.into_iter().fold(BTreeMap::new(), ...)
RECURSIVE GroupFold(_, _)
GroupFold(items, groups) ==
    IF items = <<>> THEN groups
    ELSE LET tld == Head(items)
             k == GroupKey(tld)
         IN GroupFold(Tail(items),
                IF k \notin DOMAIN groups THEN Insert(groups, k, <<tld>>)
                ELSE Insert(groups, k, Append(groups[k], tld)))

Group ==
    /\ pc = "done"
    /\ result.ok
    /\ modules' = GroupFold(result.val.tlds, EmptyIndex)
    /\ pc' = "grouped"
    /\ UNCHANGED <<input, tlds, keys, key, held, warnings, result, log, parsed, first, args, command>>

NextCompile ==
    \/ Stamp
    \/ Next
    \/ Group

SpecCompile == InitCompile /\ [][NextCompile]_vars

\* ------------------------------------------------------ named-value lookup
\* find_tld_or_enum_value_by_name on its own: args = <<type_name, name>>, the
\* index holds value definitions, enumerated types and other types. A value
\* tells which declaration it comes from: the value definition named n has
\* the value 100 + n, the i-th enumeral of the type named n has 10 * n + i.
LookupShapes ==
    { ValueDecl(NoName, IntegerType(<<>>), Integer(100)),
      TypeDecl(NoName, IntegerType(<<>>)) }
    \cup { TypeDecl(NoName, EnumeratedType(<<Enumeral(a, 1)>>)) : a \in Names }
    \cup { TypeDecl(NoName, EnumeratedType(<<Enumeral(a, 1), Enumeral(b, 2)>>)) :
               a \in Names, b \in Names }

\* The declaration under the name n, its values marked with n.
Named(tld, n) ==
    IF tld.kind = "Value" THEN [tld EXCEPT !.name = n, !.value = Integer(@.n + n)]
    ELSE IF tld.type.t = "Enumerated"
    THEN [tld EXCEPT !.name = n,
                     !.type.members = [i \in 1..Len(@) |-> Enumeral(@[i].name, 10 * n + @[i].index)]]
    ELSE [tld EXCEPT !.name = n]

InitLookup ==
    /\ \E f \in [Names -> LookupShapes \cup {NoTld}] :
           tlds = [n \in {m \in Names : f[m] # NoTld} |-> Named(f[n], n)]
    /\ args \in Names \X Names
    /\ pc = "find"
    /\ input = <<>>
    /\ keys = <<>>
    /\ key = NoName
    /\ held = NoTld
    /\ warnings = <<>>
    /\ result = NoResult
    /\ log = <<>>
    /\ parsed = <<>>
    /\ modules = EmptyIndex
    /\ first = NoResult
    /\ builder = NoBuilder
    /\ calls = <<>>
    /\ written = NoPath

Find ==
    /\ pc = "find"
    /\ result' = find_tld_or_enum_value_by_name(args[1], args[2], tlds)
    /\ pc' = "found"
    /\ UNCHANGED <<outer, input, tlds, keys, key, held, warnings, log>>

SpecLookup == InitLookup /\ [][Find]_vars

\* ------------------------------------------------------ bit string to octets
\* bit_string_to_octet_string on its own: args is the bit vector.
MaxBits == 16       \* bits of the vector

InitBits ==
    /\ \E n \in 0..MaxBits : args \in [1..n -> BOOLEAN]
    /\ pc = "bits"
    /\ input = <<>>
    /\ tlds = EmptyIndex
    /\ keys = <<>>
    /\ key = NoName
    /\ held = NoTld
    /\ warnings = <<>>
    /\ result = NoResult
    /\ log = <<>>
    /\ parsed = <<>>
    /\ modules = EmptyIndex
    /\ first = NoResult
    /\ builder = NoBuilder
    /\ calls = <<>>
    /\ written = NoPath

Convert ==
    /\ pc = "bits"
    /\ result' = bit_string_to_octet_string(args)
    /\ pc' = "converted"
    /\ UNCHANGED <<outer, input, tlds, keys, key, held, warnings, log>>

SpecBits == InitBits /\ [][Convert]_vars

\* ---------------------------------------------------- object field path walk
\* walk_object_field_ref_path on its own: args is its three arguments.
MaxFields == 2      \* fields of the list handed to the walker
MaxSubFields == 1   \* fields below one field
MaxPath == 3        \* segments of the path

Identifiers == {"a", "b", "c"}

\* An InformationObjectClassField: its identifier, its place in the class (which
\* tells one field from another of the same identifier) and the fields below it.
Field(id, at, sub) == [identifier |-> id, at |-> at, fields |-> sub]
NoField == [identifier |-> "", at |-> <<>>, fields |-> <<>>]

FieldLists ==
    UNION {{[i \in 1..n |-> Field(ids[i], <<i>>,
                                 [j \in 1..Len(subs[i]) |-> Field(subs[i][j], <<i, j>>, <<>>)])] :
               ids \in [1..n -> Identifiers],
               subs \in [1..n -> UNION {[1..c -> Identifiers] : c \in 0..MaxSubFields}]} :
           n \in 0..MaxFields}

Paths == UNION {[1..n -> Identifiers] : n \in 0..MaxPath}

\* Mutant: find_map keeps the last field that matches.
FirstMatch_Last(fields, id) ==
    IF \E i \in 1..Len(fields) : fields[i].identifier = id
    THEN MaxOf({i \in 1..Len(fields) : fields[i].identifier = id})
    ELSE 0

\* fields.iter().find_map(..): the place of the first field whose identifier
\* is id, 0 when there is none.
FirstMatch(fields, id) ==
    IF \E i \in 1..Len(fields) : fields[i].identifier = id
    THEN MinOf({i \in 1..Len(fields) : fields[i].identifier = id})
    ELSE 0

\* Mutant: the nested call is given the fields below the matched field.
NestedFields_Below(fields, m) == fields[m].fields

\* The list the nested call is given: the list of the caller.
NestedFields(fields, m) == fields

Call(fields, index) == [fields |-> fields, index |-> index]

InitWalk ==
    /\ \E fields \in FieldLists, path \in Paths, index \in 0..MaxPath :
          args = [fields |-> fields, path |-> path, index |-> index]
    /\ pc = "walk"
    /\ input = <<>>
    /\ tlds = EmptyIndex
    /\ keys = <<>>
    /\ key = NoName
    /\ held = NoTld
    /\ warnings = <<>>
    /\ result = NoResult
    /\ log = <<Call(args.fields, args.index)>>
    /\ parsed = <<>>
    /\ modules = EmptyIndex
    /\ first = NoResult
    /\ builder = NoBuilder
    /\ calls = <<>>
    /\ written = NoPath

\* One call of walk_object_field_ref_path, the innermost of log: it returns, or
\* it calls itself for the next segment.
Walk ==
    /\ pc = "walk"
    /\ LET call == log[Len(log)]
           m == IF call.index < Len(args.path)
                THEN FirstMatch(call.fields, args.path[call.index + 1])
                ELSE 0
       IN IF m = 0
          THEN /\ result' = NoField
               /\ pc' = "walked"
               /\ log' = log
          ELSE IF Len(args.path) = call.index + 1
          THEN /\ result' = call.fields[m]
               /\ pc' = "walked"
               /\ log' = log
          ELSE /\ log' = Append(log, Call(NestedFields(call.fields, m), call.index + 1))
               /\ pc' = "walk"
               /\ result' = result
    /\ UNCHANGED <<outer, input, tlds, keys, key, held, warnings>>

SpecWalk == InitWalk /\ [][Walk]_vars

\* ------------------------------------------------------- the compile command
\* RasnCompiler, the builder of a compile command. A path is the sequence of
\* its components (<<>> is a path without a final component, `.` or `/`);
\* args is the set of the paths that are directories.
MaxAdds == 3        \* add_asn_* calls of one command
MaxBatch == 2       \* paths of one add_asn_sources_by_path call

\* AsnSource
Path(p) == [source |-> "Path", path |-> p]
Literal(l) == [source |-> "Literal", literal |-> l]

\* the four typestates
CompilerMissingParams == [state |-> "MissingParams"]
CompilerOutputSet(path) == [state |-> "OutputSet", output_path |-> path]
CompilerSourcesSet(sources) == [state |-> "SourcesSet", sources |-> sources]
CompilerReady(sources, path) ==
    [state |-> "Ready", sources |-> sources, output_path |-> path]

SourcePaths == {<<"a.asn">>, <<"missing.asn">>}
Literals == {"A ::= INTEGER", "not ASN.1"}
OutputPaths == {<<>>, <<"out">>, <<"out", "gen">>, <<"out", "lib.rs">>, <<"nowhere", "lib.rs">>}
DirSets ==
    { {<<>>},
      {<<>>, <<"out">>},
      {<<>>, <<"out">>, <<"out", "gen">>},
      {<<>>, <<"out">>, <<"out", "gen">>, <<"out", "rasn_generated.rs">>} }

\* Path::is_dir
is_dir(dirs, path) == path \in dirs

\* PathBuf::set_file_name: the final component is replaced, or the name is
\* pushed when the path has no final component.
set_file_name(path, name) ==
    IF path = <<>> THEN <<name>> ELSE Append(SubSeq(path, 1, Len(path) - 1), name)

\* Path::join with a relative path of one component
join(path, name) == Append(path, name)

\* fs::write creates or replaces a file in a directory that exists.
CanWrite(dirs, path) ==
    /\ path # <<>>
    /\ ~is_dir(dirs, path)
    /\ is_dir(dirs, SubSeq(path, 1, Len(path) - 1))

\* internal_compile reads every source given by path and parses every source.
Readable(src) ==
    IF src.source = "Path" THEN src.path # <<"missing.asn">> ELSE src.literal # "not ASN.1"

internal_compile(sources) ==
    IF \A i \in 1..Len(sources) : Readable(sources[i])
    THEN OkWith(<<>>)
    ELSE Err("unrecoverable")

\* Mutant: a builder that has sources starts its list again.
add_sources_Fresh(b, new) ==
    CASE b.state = "MissingParams" -> CompilerSourcesSet(new)
      [] b.state = "OutputSet" -> CompilerReady(new, b.output_path)
      [] b.state = "SourcesSet" -> CompilerSourcesSet(new)
      [] b.state = "Ready" -> CompilerReady(new, b.output_path)

\* add_asn_by_path, add_asn_sources_by_path and add_asn_literal of the four
\* typestates: new is what the call contributes.
add_sources(b, new) ==
    CASE b.state = "MissingParams" -> CompilerSourcesSet(new)
      [] b.state = "OutputSet" -> CompilerReady(new, b.output_path)
      [] b.state = "SourcesSet" -> CompilerSourcesSet(b.sources \o new)
      [] b.state = "Ready" -> CompilerReady(b.sources \o new, b.output_path)

\* RasnCompiler<CompilerMissingParams>::set_output_path
MissingParams_set_output_path(dirs, path) ==
    CompilerOutputSet(IF is_dir(dirs, path)
                      THEN set_file_name(path, "rasn_generated.rs")
                      ELSE path)

\* RasnCompiler<CompilerSourcesSet>::set_output_path
SourcesSet_set_output_path(b, path) == CompilerReady(b.sources, path)

\* the file compile hands to fs::write
OutputFile(dirs, b) ==
    IF is_dir(dirs, b.output_path) THEN join(b.output_path, "generated.rs") ELSE b.output_path

Called(op, arg) == [op |-> op, arg |-> arg, in |-> builder.state]
AddCalls == {i \in 1..Len(calls) : calls[i].op \in {"add_asn_by_path", "add_asn_sources_by_path",
                                                   "add_asn_literal"}}

InitBuilder ==
    /\ args \in DirSets
    /\ builder = CompilerMissingParams
    /\ calls = <<>>
    /\ written = NoPath
    /\ pc = "build"
    /\ input = <<>>
    /\ tlds = EmptyIndex
    /\ keys = <<>>
    /\ key = NoName
    /\ held = NoTld
    /\ warnings = <<>>
    /\ result = NoResult
    /\ log = <<>>
    /\ parsed = <<>>
    /\ modules = EmptyIndex
    /\ first = NoResult

Add(op, arg, new) ==
    /\ pc = "build"
    /\ Cardinality(AddCalls) < MaxAdds
    /\ builder' = add_sources(builder, new)
    /\ calls' = Append(calls, Called(op, arg))
    /\ UNCHANGED <<input, pc, tlds, keys, key, held, warnings, result, log,
                   parsed, modules, first, args, written>>

AddAsnByPath == \E p \in SourcePaths : Add("add_asn_by_path", p, <<Path(p)>>)

AddAsnSourcesByPath ==
    \E n \in 0..MaxBatch : \E ps \in [1..n -> SourcePaths] :
        Add("add_asn_sources_by_path", ps, [i \in 1..n |-> Path(ps[i])])

AddAsnLiteral == \E l \in Literals : Add("add_asn_literal", l, <<Literal(l)>>)

SetOutputPath ==
    /\ pc = "build"
    /\ builder.state \in {"MissingParams", "SourcesSet"}
    /\ \E path \in OutputPaths :
          /\ builder' = IF builder.state = "MissingParams"
                        THEN MissingParams_set_output_path(args, path)
                        ELSE SourcesSet_set_output_path(builder, path)
          /\ calls' = Append(calls, Called("set_output_path", path))
    /\ UNCHANGED <<input, pc, tlds, keys, key, held, warnings, result, log,
                   parsed, modules, first, args, written>>

\* RasnCompiler<CompilerSourcesSet> and <CompilerReady>::compile_to_string
CompileToString ==
    /\ pc = "build"
    /\ builder.state \in {"SourcesSet", "Ready"}
    /\ result' = internal_compile(builder.sources)
    /\ calls' = Append(calls, Called("compile_to_string", <<>>))
    /\ pc' = "compiled"
    /\ UNCHANGED <<input, tlds, keys, key, held, warnings, log,
                   parsed, modules, first, args, builder, written>>

\* RasnCompiler<CompilerReady>::compile
Compile ==
    /\ pc = "build"
    /\ builder.state = "Ready"
    /\ IF ~internal_compile(builder.sources).ok
       THEN /\ result' = internal_compile(builder.sources)
            /\ written' = written
       ELSE IF ~CanWrite(args, OutputFile(args, builder))
       THEN /\ result' = Err("io")
            /\ written' = written
       ELSE /\ result' = OkWith(<<>>)
            /\ written' = OutputFile(args, builder)
    /\ calls' = Append(calls, Called("compile", <<>>))
    /\ pc' = "compiled"
    /\ UNCHANGED <<input, tlds, keys, key, held, warnings, log,
                   parsed, modules, first, args, builder>>

NextBuilder ==
    \/ AddAsnByPath
    \/ AddAsnSourcesByPath
    \/ AddAsnLiteral
    \/ SetOutputPath
    \/ CompileToString
    \/ Compile

SpecBuilder == InitBuilder /\ [][NextBuilder]_vars

\* =================================================================== claims
InitialKeys == {input[i].name : i \in 1..Len(input)}
KindOf(k) == input[CHOOSE i \in 1..Len(input) : input[i].name = k].kind
PopCount(k) == Cardinality({i \in 1..Len(log) : log[i].task = "pop" /\ log[i].key = k})
HeldPcs == {"class_held", "components_held", "choice_held", "object_set_held",
            "constraint_held", "supertypes_held"}
ReturnedOk == pc = "done" /\ result.ok
ReturnedErr == pc = "done" /\ ~result.ok

\* The number of steps link and validate can still take: every step lowers it.
PcRank ==
    CASE pc = "class" -> 15 [] pc = "class_held" -> 14
      [] pc = "components" -> 13 [] pc = "components_held" -> 12
      [] pc = "choice" -> 11 [] pc = "choice_held" -> 10
      [] pc = "object_set" -> 9 [] pc = "object_set_held" -> 8
      [] pc = "constraint" -> 7 [] pc = "constraint_held" -> 6
      [] pc = "supertypes" -> 5 [] pc = "supertypes_held" -> 4
      [] pc = "loop" -> 3 [] pc = "linked" -> 2 [] pc = "link_err" -> 1
      [] OTHER -> 0
Measure ==
    IF pc = "new" THEN 13 * Len(input) + 5
    ELSE IF pc = "validate" THEN 13 * Len(input) + 4
    ELSE 13 * Len(keys) + PcRank

\* C1 as stated: link's loop ends having processed every key of the index
\* exactly once.
C1_EveryKeyExactlyOnce ==
    pc \in {"linked", "link_err", "done"} => \A k \in InitialKeys : PopCount(k) = 1

\* C1, amended: the run always ends (every step lowers Measure, and a step is
\* possible until validate has returned); after the worklist is built it only
\* loses its last key, so no key is pushed again; every key is processed at
\* most once, and exactly once when link returns Ok.
C1_Terminates ==
    /\ [](/\ pc # "done" => ENABLED Next
          /\ \A k \in InitialKeys : PopCount(k) <= 1
          /\ pc = "linked" \/ ReturnedOk => \A k \in InitialKeys : PopCount(k) = 1)
    /\ [][/\ Measure' < Measure
          /\ pc # "validate" =>
                \/ keys' = keys
                \/ keys # <<>> /\ keys' = SubSeq(keys, 1, Len(keys) - 1)]_vars

C1_Witness ==
    /\ ReturnedOk
    /\ Len(input) = NumNames
    /\ \E i \in 1..Len(log) : log[i].task = "constraint" /\ log[i].out = "false"

\* C2: the index lacks at most the key in hand; while a sub-task or
\* collect_supertypes runs for the key, the index it is given lacks that key;
\* between iterations and when link returns Ok the index has all initial keys.
C2_RemoveMutateReinsert ==
    pc # "new" =>
        /\ DOMAIN tlds \subseteq InitialKeys
        /\ (InitialKeys \ DOMAIN tlds) \subseteq {key}
        /\ pc \in HeldPcs => /\ key \notin DOMAIN tlds
                             /\ held.kind # "None"
                             /\ held.name = key
        /\ pc \in {"validate", "loop", "linked"} \/ ReturnedOk => DOMAIN tlds = InitialKeys
        /\ pc \notin HeldPcs => held = NoTld

\* A class definition whose class link names itself is being resolved: the
\* lookup of its own name in the index finds nothing.
C2_Witness ==
    /\ pc = "class_held"
    /\ held.kind = "Information"
    /\ held.class = ByName(key)
    /\ is_class(held)
    /\ ~is_class(Get(tlds, key))

\* C3 as stated: every value definition is processed before any other
\* declaration.
C3_ValuesFirst ==
    \A i, j \in 1..Len(log) :
        KindOf(log[i].key) = "Value" /\ KindOf(log[j].key) # "Value" => i < j

\* C3, amended: every declaration that is not a value definition is processed
\* before any value definition (the worklist is popped from its end).
C3_ValuesLast ==
    \A i, j \in 1..Len(log) :
        KindOf(log[i].key) # "Value" /\ KindOf(log[j].key) = "Value" => i < j

C3_Witness ==
    /\ ReturnedOk
    /\ \E i, j \in 1..Len(log) :
          /\ KindOf(log[i].key) # "Value" /\ log[i].task = "supertypes"
          /\ KindOf(log[j].key) = "Value" /\ log[j].task = "supertypes"
          /\ log[i].key < log[j].key

\* C4: when link_constraint_reference returns Ok(false) for the declaration in
\* hand, link goes on to collect_supertypes with the declaration back in the
\* index, the worklist untouched and one MissingDependency warning naming the
\* declaration appended; no other step adds a warning, and no two warnings
\* name the same declaration.
Unlinked == pc = "constraint_held" /\ ~link_constraint_reference(held, tlds).val

C4_WarningNotFailure ==
    /\ [](\A i, j \in 1..Len(warnings) :
             /\ warnings[i].kind = "MissingDependency"
             /\ warnings[i].data_element = warnings[j].data_element => i = j)
    /\ [][/\ Unlinked =>
                /\ pc' = "supertypes"
                /\ warnings' = Append(warnings, FailedToLink(held.name))
                /\ key \in DOMAIN tlds'
                /\ keys' = keys
          /\ ~Unlinked /\ pc # "validate" => warnings' = warnings]_vars

\* Two declarations were warned about, and validate returned Ok.
C4_Witness ==
    /\ ReturnedOk
    /\ Len(warnings) = 2
    /\ \E i \in 1..Len(log) : log[i].task = "pop" /\ log[i].key # warnings[1].data_element
                              /\ \E j \in 1..(i - 1) : log[j].out = "false"

\* C5: when choice selection linking fails, link returns Err at once: the
\* worklist and the log stay as they are, validate returns that Err, which
\* carries neither declarations nor warnings.
ChoiceFails == pc = "choice_held" /\ ~link_choice_selection_type(held.type, tlds).ok
ChoiceFailed == \E i \in 1..Len(log) : log[i].task = "choice" /\ log[i].out = "err"

C5_ChoiceFailureIsFatal ==
    /\ [](ChoiceFailed =>
             /\ pc \in {"link_err", "done"}
             /\ log[Len(log)].task = "choice" /\ log[Len(log)].out = "err"
             /\ DOMAIN result = {"ok", "err"}
             /\ ~result.ok)
    /\ [][/\ ChoiceFails => pc' = "link_err" /\ keys' = keys
          /\ pc = "link_err" => pc' = "done" /\ result' = result /\ keys' = keys /\ log' = log]_vars

\* validate returned Err after a warning had been pushed and with a key left
\* on the worklist.
C5_Witness ==
    /\ ReturnedErr
    /\ ChoiceFailed
    /\ warnings # <<>>
    /\ keys # <<>>

\* C6: when link succeeds, every declaration of the index is either in the
\* output, once, or has exactly one validation error; the diagnostics are the
\* warnings followed by the validation errors.
C6_Partition ==
    ReturnedOk =>
        LET out == result.val.tlds
            errs == result.val.errors
            n == Len(warnings)
            Outs(k) == {i \in 1..Len(out) : out[i].name = k}
            Errs(k) == {j \in (n + 1)..Len(errs) : errs[j].data_element = k}
        IN /\ Len(errs) >= n
           /\ SubSeq(errs, 1, n) = warnings
           /\ Len(out) + (Len(errs) - n) = Cardinality(DOMAIN tlds)
           /\ \A i \in 1..Len(out) : out[i].name \in DOMAIN tlds /\ out[i] = tlds[out[i].name]
           /\ \A j \in (n + 1)..Len(errs) : errs[j].data_element \in DOMAIN tlds
           /\ \A k \in DOMAIN tlds :
                 IF ToplevelDeclaration_validate(tlds[k]).ok
                 THEN Cardinality(Outs(k)) = 1 /\ Errs(k) = {}
                 ELSE Outs(k) = {} /\ Cardinality(Errs(k)) = 1

\* A warning, a rejected declaration, and an accepted declaration that comes
\* after the rejected one in index order.
C6_Witness ==
    /\ ReturnedOk
    /\ warnings # <<>>
    /\ \E k, m \in DOMAIN tlds :
          /\ k < m
          /\ ~ToplevelDeclaration_validate(tlds[k]).ok
          /\ \E i \in 1..Len(result.val.tlds) : result.val.tlds[i].name = m

\* C7: a declaration is rejected exactly when it is a type definition of type
\* INTEGER, BIT STRING or CharacterString with an attached constraint that is
\* a value range of two integers with min > max; the error is an
\* InvalidConstraintsError naming the declaration.
IsInvertedRange(c) ==
    /\ c.c = "SubtypeConstraint"
    /\ c.set.e = "Element"
    /\ c.set.elem.s = "ValueRange"
    /\ c.set.elem.min.v = "Integer"
    /\ c.set.elem.max.v = "Integer"
    /\ c.set.elem.max.n < c.set.elem.min.n

MustBeRejected(tld) ==
    /\ tld.kind = "Type"
    /\ tld.type.t \in {"Integer", "BitString", "CharacterString"}
    /\ \E i \in 1..Len(tld.type.constraints) : IsInvertedRange(tld.type.constraints[i])

C7_ValidationDecision ==
    pc = "validated" =>
        /\ ~result.ok <=> MustBeRejected(held)
        /\ ~result.ok => /\ result.err.kind = "InvalidConstraintsError"
                         /\ result.err.data_element = held.name

\* A BIT STRING type is rejected for its second constraint, the first being a
\* range with equal bounds.
C7_Witness ==
    /\ pc = "validated"
    /\ ~result.ok
    /\ held.type.t = "BitString"
    /\ Len(held.type.constraints) = 2
    /\ held.type.constraints[1] = Range(Integer(1), Integer(1))

\* C8 as stated: in every declaration validate returns, every INTEGER value
\* range with two integer bounds has min <= max, wherever it occurs in the
\* declaration's type.
ElementOrdered(el) ==
    el.s = "ValueRange" /\ el.min.v = "Integer" /\ el.max.v = "Integer" => el.min.n <= el.max.n

RECURSIVE SetOrdered(_)
SetOrdered(set) ==
    IF set.e = "Element" THEN ElementOrdered(set.elem)
    ELSE ElementOrdered(set.base) /\ SetOrdered(set.operant)

RECURSIVE RangesOrdered(_)
RangesOrdered(ty) ==
    /\ ty.t = "Integer" =>
          \A i \in 1..Len(ty.constraints) :
              ty.constraints[i].c = "SubtypeConstraint" => SetOrdered(ty.constraints[i].set)
    /\ \A i \in 1..Len(Fields(ty)) : IsMember(Fields(ty)[i]) => RangesOrdered(Fields(ty)[i].type)

C8_OutputRangesOrdered ==
    ReturnedOk =>
        \A i \in 1..Len(result.val.tlds) :
            result.val.tlds[i].kind = "Type" => RangesOrdered(result.val.tlds[i].type)

\* C9: the class link of an information declaration only changes from ByName
\* to ByReference, a ByReference link is never changed, and the class
\* resolution sub-task is only entered for a declaration whose link is ByName.
DeclOf(k) == IF k \in DOMAIN tlds THEN tlds[k]
             ELSE IF held.kind # "None" /\ held.name = k THEN held
             ELSE NoTld
LinkOf(k) == IF DeclOf(k).kind = "Information" THEN DeclOf(k).class.l ELSE "n/a"

C9_ClassLinkStateMachine ==
    [][\A k \in InitialKeys :
          DeclOf(k).kind = "Information" /\ DeclOf(k)'.kind = "Information" =>
              /\ LinkOf(k) = "ByReference" => DeclOf(k)'.class = DeclOf(k).class
              /\ LinkOf(k)' # LinkOf(k) => LinkOf(k) = "ByName" /\ LinkOf(k)' = "ByReference"
              /\ pc' = "class_held" /\ key' = k => LinkOf(k) = "ByName"]_vars

\* A link was resolved in this run, next to one that was ByReference from the
\* start and went through the loop.
C9_Witness ==
    /\ ReturnedOk
    /\ \E i, j \in 1..Len(input) :
          /\ input[i].kind = "Information" /\ input[i].class.l = "ByName"
          /\ LinkOf(input[i].name) = "ByReference"
          /\ input[j].kind = "Information" /\ input[j].class.l = "ByReference"

\* C10: when validate returns Ok, no information declaration holds a ByName
\* link naming a resolved class of the index (a class definition whose own
\* link is not ByName).
IsResolvedClass(tld) == is_class(tld) /\ tld.class.l # "ByName"

StillByName(k) == tlds[k].kind = "Information" /\ tlds[k].class.l = "ByName"

SecondPass(mode) == pc = "done" /\ first # NoResult /\ first.mode = mode

NamesOf(list) == [i \in 1..Len(list) |-> list[i].name]
DeclIn(list, n) ==
    IF \E i \in 1..Len(list) : list[i].name = n
    THEN list[CHOOSE i \in 1..Len(list) : list[i].name = n]
    ELSE NoTld

ChainedComponents(list, tld) ==
    /\ tld.kind = "Type"
    /\ tld.type.t = "Sequence"
    /\ \E i \in 1..Len(tld.type.members) :
          /\ tld.type.members[i].m = "ComponentsOf"
          /\ LET x == DeclIn(list, tld.type.members[i].of)
             IN /\ x.kind = "Type"
                /\ contains_components_of_notation(x.type) \/ has_choice_selection_type(x.type)

ChainedObjectSet(list, tld) ==
    /\ is_object_set(tld)
    /\ \E i \in 1..Len(tld.value.values) :
          /\ tld.value.values[i].o = "Reference"
          /\ LET x == DeclIn(list, tld.value.values[i].name)
             IN is_object_set(x) /\ references_object_set_by_name(x.value)

Chained(list) ==
    \E i \in 1..Len(list) : ChainedComponents(list, list[i]) \/ ChainedObjectSet(list, list[i])

ValueRefs(val) == IF IsReference(val) THEN {val.identifier} ELSE {}
ElementRefs(el) ==
    IF el.s = "ValueRange" THEN ValueRefs(el.min) \cup ValueRefs(el.max) ELSE ValueRefs(el.value)

RECURSIVE SetRefs(_)
SetRefs(set) ==
    IF set.e = "Element" THEN ElementRefs(set.elem)
    ELSE ElementRefs(set.base) \cup SetRefs(set.operant)

RECURSIVE TypeRefs(_)
TypeRefs(ty) ==
    (IF ty.t = "ChoiceSelectionType" THEN {ty.choice_name}
     ELSE IF ty.t = "InformationObjectFieldReference" THEN {ty.class}
     ELSE {})
    \cup UNION { IF ConstraintsOf(ty)[i].c = "SubtypeConstraint"
                 THEN SetRefs(ConstraintsOf(ty)[i].set) ELSE {} :
                 i \in 1..Len(ConstraintsOf(ty)) }
    \cup UNION { IF IsMember(Fields(ty)[i]) THEN TypeRefs(Fields(ty)[i].type)
                 ELSE {Fields(ty)[i].of} : i \in 1..Len(Fields(ty)) }

\* The names a declaration refers to.
Refs(tld) ==
    IF tld.kind = "Type" THEN TypeRefs(tld.type)
    ELSE IF tld.kind = "Value" THEN ValueRefs(tld.value)
    ELSE IF tld.kind = "Information"
    THEN (IF tld.class.l = "ByName" THEN {tld.class.name} ELSE {})
         \cup (IF tld.value.i = "ObjectSet"
               THEN {tld.value.values[i].name :
                        i \in {j \in 1..Len(tld.value.values) : tld.value.values[j].o = "Reference"}}
               ELSE {})
    ELSE {}

Added == input[Len(input)]
Reported(d, errors) == \E i \in 1..Len(errors) : errors[i] = d

C14_Monotone ==
    SecondPass("extended") /\ first.result.ok =>
        \A i \in 1..Len(first.result.val.errors) :
            LET d == first.result.val.errors[i]
            IN Added.name \notin Refs(DeclIn(first.input, d.data_element)) =>
                   result.ok /\ Reported(d, result.val.errors)

\* C14, amended: the diagnostic for t is still reported when validate returns
\* Ok for the longer list and u defines no enumerated value of a name that t
\* refers to, itself or through the declarations it refers to. (When linking u fails, validate returns that error alone; a
\* constraint reference of t is looked up among the enumerated values of
\* every declaration.)
DefinesValue(u, names) ==
    \E id \in names : get_distinguished_or_enum_value(u, NoName, id) # None

\* The names t refers to, itself or through the declarations it refers to (a
\* choice selection or a COMPONENTS OF takes over the references of its target).
RECURSIVE Reach(_, _, _)
Reach(list, names, n) ==
    IF n = 0 THEN names
    ELSE Reach(list, names \cup UNION {Refs(DeclIn(list, k)) : k \in names}, n - 1)

AllRefs(list, t) == Reach(list, Refs(t), Len(list))

C14_MonotoneWhenOk ==
    SecondPass("extended") /\ first.result.ok /\ result.ok =>
        \A i \in 1..Len(first.result.val.errors) :
            LET d == first.result.val.errors[i]
                t == DeclIn(first.input, d.data_element)
                refs == AllRefs(first.input, t)
            IN Added.name \notin refs /\ ~DefinesValue(Added, refs) =>
                   Reported(d, result.val.errors)

\* Two declarations had a diagnostic each, a warning and a validation error;
\* the added declaration brought a third, and the two are reported again.
C14_Witness ==
    /\ SecondPass("extended")
    /\ first.result.ok
    /\ result.ok
    /\ Len(first.result.val.errors) = 2
    /\ Len(first.result.val.errors[1].details) > Len(first.result.val.errors[2].details)
    /\ Len(result.val.errors) = 3
    /\ \A i \in 1..2 :
          /\ Added.name \notin Refs(DeclIn(first.input, first.result.val.errors[i].data_element))
          /\ Reported(first.result.val.errors[i], result.val.errors)

\* C15: the lookup returns the value of index[name] when that is a value
\* definition; otherwise the enumerated value `name` of the first declaration,
\* in index order, that defines it with the containing type type_name;
\* otherwise that of the first declaration that defines it under any type;
\* and nothing when none of the three finds one.
Defines(k, type_name, name) ==
    get_distinguished_or_enum_value(tlds[k], type_name, name) # None
FirstDefining(type_name, name) ==
    MinOf({k \in DOMAIN tlds : Defines(k, type_name, name)})
LookupExpected(type_name, name) ==
    IF name \in DOMAIN tlds /\ tlds[name].kind = "Value" THEN tlds[name].value
    ELSE IF \E k \in DOMAIN tlds : Defines(k, type_name, name)
    THEN get_distinguished_or_enum_value(tlds[FirstDefining(type_name, name)], type_name, name)
    ELSE IF \E k \in DOMAIN tlds : Defines(k, NoName, name)
    THEN get_distinguished_or_enum_value(tlds[FirstDefining(NoName, name)], NoName, name)
    ELSE None

C15_ThreeStageLookup ==
    pc = "found" =>
        /\ result = LookupExpected(args[1], args[2])
        /\ result = None <=>
               /\ Get(tlds, args[2]).kind # "Value"
               /\ \A k \in DOMAIN tlds : ~Defines(k, NoName, args[2])

\* The name is an enumeral of the type named 1 and of the type named 3, the
\* containing type asked for is 3: the value of type 3 is returned although
\* type 1 comes first in the index.
C15_Witness ==
    /\ pc = "found"
    /\ args = <<3, 2>>
    /\ DOMAIN tlds = Names
    /\ Defines(1, NoName, 2)
    /\ Defines(3, 3, 2)
    /\ Get(tlds, 2).kind = "Type"
    /\ result = Integer(31)

\* C16: the index holds, for every name of the list, the declaration of that
\* name that comes last in the list, whatever module it is of, and nothing
\* else; validate returns no two declarations of one name.
LastOf(list, n) == list[MaxOf({i \in 1..Len(list) : list[i].name = n})]

C16_LaterShadowsEarlier ==
    /\ pc = "validate" =>
          /\ DOMAIN tlds = {input[i].name : i \in 1..Len(input)}
          /\ \A n \in DOMAIN tlds : tlds[n] = LastOf(input, n)
    /\ ReturnedOk \/ pc = "grouped" =>
          \A i, j \in 1..Len(result.val.tlds) :
              result.val.tlds[i].name = result.val.tlds[j].name => i = j

\* Two modules of different names declare the name 1, the first one twice:
\* the declaration of the second module is the one returned.
C16_Witness ==
    /\ pc = "grouped"
    /\ Len(parsed) = 2
    /\ parsed[1].name # parsed[2].name
    /\ Len(input) = 3
    /\ \A i \in 1..3 : input[i].name = 1
    /\ input[1].kind # input[3].kind
    /\ Len(result.val.tlds) = 1
    /\ result.val.tlds[1].index = Index(Header(2, parsed[2].name), 0)

\* C17 as stated: in every group the declarations are in ascending order of
\* the position they were given in their module.
C17_GroupsInSourceOrder ==
    pc = "grouped" =>
        \A g \in DOMAIN modules : \A i, j \in 1..Len(modules[g]) :
            i < j => modules[g][i].index.item <= modules[g][j].index.item

\* C17, amended: every declaration of a group has the index it was given
\* before linking, and in every group the declarations are in ascending order
\* of their names, which is the order validate returns them in.
C17_GroupsInNameOrder ==
    pc = "grouped" =>
        \A g \in DOMAIN modules :
            /\ \A i \in 1..Len(modules[g]) :
                  modules[g][i].index = LastOf(input, modules[g][i].name).index
            /\ \A i, j \in 1..Len(modules[g]) :
                  i < j => modules[g][i].name < modules[g][j].name

\* A module declares the name 2 and then the name 1: its group has the
\* declaration of the second position before that of the first.
C17_Witness ==
    /\ pc = "grouped"
    /\ \E g \in DOMAIN modules :
          /\ Len(modules[g]) = 2
          /\ modules[g][1].index.header = modules[g][2].index.header
          /\ modules[g][1].index.item = 1
          /\ modules[g][2].index.item = 0

\* C18: every declaration validate returned is in exactly one place of
\* exactly one group, the group of its module's name (of the empty string when
\* it has no index); the groups hold nothing else, and no group is empty.
Places(tld) ==
    {<<g, i>> \in (DOMAIN modules) \X (1..(MaxModules * MaxTlds)) :
        i <= Len(modules[g]) /\ modules[g][i] = tld}

C18_GroupingPartition ==
    pc = "grouped" =>
        /\ \A n \in 1..Len(result.val.tlds) :
              /\ Cardinality(Places(result.val.tlds[n])) = 1
              /\ \A p \in Places(result.val.tlds[n]) :
                    p[1] = IF result.val.tlds[n].index = NoIndex THEN ""
                           ELSE result.val.tlds[n].index.header.name
        /\ \A g \in DOMAIN modules :
              /\ modules[g] # <<>>
              /\ \A i \in 1..Len(modules[g]) : Reported(modules[g][i], result.val.tlds)

\* The two declarations returned are of modules of different names and make
\* two groups; a third declaration was shadowed by one of them.
C18_Witness ==
    /\ pc = "grouped"
    /\ Len(input) = 3
    /\ Len(result.val.tlds) = 2
    /\ DOMAIN modules = ModuleNames

\* C19: for a vector of N bits with N not a multiple of 8 the conversion
\* returns a LinkerError and no octets; otherwise it returns N / 8 bytes, the
\* k-th being the sum of bit[8k + i] * 2^(7 - i) over i in 0..7, which is in
\* 0..255: the 8-bit accumulator never overflows.
Weight(bits, k, i) == IF bits[8 * k + i + 1] THEN 2^(7 - i) ELSE 0
ByteAt(bits, k) ==
    Weight(bits, k, 0) + Weight(bits, k, 1) + Weight(bits, k, 2) + Weight(bits, k, 3)
    + Weight(bits, k, 4) + Weight(bits, k, 5) + Weight(bits, k, 6) + Weight(bits, k, 7)

C19_BitsToOctets ==
    pc = "converted" =>
        IF Len(args) % 8 # 0
        THEN /\ ~result.ok
             /\ DOMAIN result = {"ok", "err"}
             /\ result.err.kind = "LinkerError"
        ELSE /\ result.ok
             /\ Len(result.val) = Len(args) \div 8
             /\ \A k \in 0..(Len(result.val) - 1) :
                   /\ result.val[k + 1] = ByteAt(args, k)
                   /\ result.val[k + 1] \in 0..255

\* The bits 10110000 11111111 gave the octets B0 and FF.
C19_Witness ==
    /\ pc = "converted"
    /\ Len(args) = 16
    /\ result.ok
    /\ result.val = <<176, 255>>

\* C20: for a vector whose length is a multiple of 8, the bits of the octets
\* returned, each octet most significant bit first, are the vector.
BitsOfOctet(b) == [i \in 1..8 |-> (b \div 2^(8 - i)) % 2 = 1]

RECURSIVE BitsOfOctets(_)
BitsOfOctets(octets) ==
    IF octets = <<>> THEN <<>> ELSE BitsOfOctet(Head(octets)) \o BitsOfOctets(Tail(octets))

C20_RoundTrip ==
    pc = "converted" /\ Len(args) % 8 = 0 =>
        result.ok /\ BitsOfOctets(result.val) = args

\* Two octets that differ in their first and last bits only.
C20_Witness ==
    /\ pc = "converted"
    /\ Len(args) = 16
    /\ result.ok
    /\ args[1] /\ ~args[8] /\ ~args[9] /\ args[16]
    /\ result.val[1] = result.val[2] + 127
    /\ BitsOfOctets(result.val) = args

\* ---------------------------------------------------------------------- C23
\* The place of a sub-task in the body of link's loop.
TaskRank(task) ==
    CASE task = "pop" -> 0
      [] task = "class" -> 1
      [] task = "components" -> 2
      [] task = "choice" -> 3
      [] task = "object_set" -> 4
      [] task = "constraint" -> 5
      [] task = "supertypes" -> 6

\* The sub-task the run stands at or in, 7 outside the body of the loop.
AtRank ==
    CASE pc \in {"class", "class_held"} -> 1
      [] pc \in {"components", "components_held"} -> 2
      [] pc \in {"choice", "choice_held"} -> 3
      [] pc \in {"object_set", "object_set_held"} -> 4
      [] pc \in {"constraint", "constraint_held"} -> 5
      [] pc \in {"supertypes", "supertypes_held"} -> 6
      [] OTHER -> 7

RunsOf(k, task) == {i \in 1..Len(log) : log[i].key = k /\ log[i].task = task}

\* The sub-tasks of one key follow each other in the order of the loop body,
\* and a key is popped only after collect_supertypes ended for the key before.
LogInOrder ==
    /\ log # <<>> => log[1].task = "pop"
    /\ \A i \in 1..(Len(log) - 1) :
          IF log[i + 1].task = "pop"
          THEN log[i].task = "supertypes" /\ log[i].out = "ok" /\ log[i + 1].key # log[i].key
          ELSE log[i + 1].key = log[i].key /\ TaskRank(log[i].task) < TaskRank(log[i + 1].task)
    /\ AtRank < 7 =>
          /\ log[Len(log)].key = key
          /\ TaskRank(log[Len(log)].task) < AtRank

\* C23 as the specification states it: the sub-tasks of a key run in the fixed
\* order, and once link has returned collect_supertypes has run exactly once
\* for every key of the index.
C23_SupertypesForEveryKey ==
    /\ LogInOrder
    /\ pc \in {"linked", "link_err", "done"} =>
          \A k \in InitialKeys : Cardinality(RunsOf(k, "supertypes")) = 1

\* C23, amended: for each key the sub-tasks of link run in the order class
\* reference, components-of, choice selection, object set reference, constraint
\* reference and then collect_supertypes, and a key is finished before the
\* next is popped; collect_supertypes runs at most once for a key, and exactly
\* once for every key of the index (of any variant, whichever of the five
\* sub-tasks applied) when link returns Ok.  When a sub-task fails link
\* returns at once, and collect_supertypes has not run for the keys left.
C23_FixedOrder ==
    /\ LogInOrder
    /\ \A k \in InitialKeys : Cardinality(RunsOf(k, "supertypes")) <= 1
    /\ pc = "loop" =>
          \A k \in InitialKeys : PopCount(k) = Cardinality(RunsOf(k, "supertypes"))
    /\ pc = "linked" =>
          \A k \in InitialKeys : Cardinality(RunsOf(k, "supertypes")) = 1
    /\ pc = "link_err" =>
          \A k \in InitialKeys : PopCount(k) = 0 => RunsOf(k, "supertypes") = {}

\* link returned Ok: one key went through choice selection, constraint
\* linking and collect_supertypes, another through collect_supertypes alone.
C23_Witness ==
    /\ pc = "linked"
    /\ \E k \in InitialKeys :
          /\ RunsOf(k, "choice") # {}
          /\ RunsOf(k, "constraint") # {}
          /\ RunsOf(k, "supertypes") # {}
    /\ \E k \in InitialKeys :
          /\ KindOf(k) = "Information"
          /\ \A t \in {"class", "components", "choice", "object_set", "constraint"} :
                RunsOf(k, t) = {}
          /\ RunsOf(k, "supertypes") # {}

\* ---------------------------------------------------------------------- C25
\* C25: link never returns "Could not find toplevel declaration to remove!".
\* When the run reaches the constraint sub-task the key is in the index under
\* its own name, whatever earlier sub-tasks of the iteration removed and put
\* back, so the removal that follows has_constraint_reference(key) finds the
\* declaration; no run records or returns the error.
C25_RemovalFindsTld ==
    /\ pc = "constraint" =>
          /\ key \in DOMAIN tlds
          /\ Get(tlds, key).name = key
    /\ pc = "constraint_held" =>
          /\ held # NoTld
          /\ held.name = key
          /\ tld_has_constraint_reference(held)
    /\ \A i \in 1..Len(log) : ~(log[i].task = "constraint" /\ log[i].out = "err")
    /\ pc \in {"link_err", "done"} /\ ~result.ok =>
          \A k \in Names \cup {NoName} : result.err # CouldNotFind(k)

\* A declaration that choice selection linking removed and put back earlier in
\* the iteration has a constraint reference and was removed again.
C25_Witness ==
    /\ pc = "constraint_held"
    /\ RunsOf(key, "choice") # {}
    /\ held.name = key
    /\ tld_has_constraint_reference(held)

\* ---------------------------------------------------------------------- C21
\* The field a call matched for its segment.
MatchedBy(call) == call.fields[FirstMatch(call.fields, args.path[call.index + 1])]

\* The walk of segment j and the segments after it that looks for each segment
\* among the fields below the field matched for the segment before.
RECURSIVE WalkBelow(_, _, _)
WalkBelow(fields, path, j) ==
    IF j > Len(path) \/ FirstMatch(fields, path[j]) = 0 THEN NoField
    ELSE IF j = Len(path) THEN fields[FirstMatch(fields, path[j])]
    ELSE WalkBelow(fields[FirstMatch(fields, path[j])].fields, path, j + 1)

\* The walk that looks for every segment in the one list.
RECURSIVE WalkSame(_, _, _)
WalkSame(fields, path, j) ==
    IF j > Len(path) \/ FirstMatch(fields, path[j]) = 0 THEN NoField
    ELSE IF j = Len(path) THEN fields[FirstMatch(fields, path[j])]
    ELSE WalkSame(fields, path, j + 1)

\* C21 as the specification states it: for a path of more than one segment,
\* each further segment is looked for among the fields below the field matched
\* for the segment before, and the field found last (or none) is returned.
C21_WalksSubFields ==
    args.index = 0 /\ Len(args.path) > 1 =>
        /\ \A k \in 2..Len(log) : log[k].fields = MatchedBy(log[k - 1]).fields
        /\ pc = "walked" => result = WalkBelow(args.fields, args.path, 1)

\* C21, amended: for a path of more than one segment, after the field for id0
\* is found the walker looks for id1 in the list it was given at the start, not
\* in the fields below the match, and so on for each further segment; it
\* returns the first field of that list whose identifier is the last segment,
\* or none if any segment matches no field of the list.
C21_WalksSameList ==
    /\ \A k \in 1..Len(log) : log[k].fields = args.fields
    /\ pc = "walked" => result = WalkSame(args.fields, args.path, args.index + 1)

\* A path of two segments whose second segment is found in the list given at
\* the start, while the fields below the first match hold another field of
\* that identifier.
C21_Witness ==
    /\ pc = "walked"
    /\ args.index = 0
    /\ Len(args.path) = 2
    /\ Len(log) = 2
    /\ result # NoField
    /\ result.at = <<2>>
    /\ WalkBelow(args.fields, args.path, 1) # NoField
    /\ WalkBelow(args.fields, args.path, 1) # result

\* ---------------------------------------------------------------------- C26
\* The segments the walk has to match: those from the start index on.
Segments == {j \in 1..Len(args.path) : j > args.index}
Unmatched == {j \in Segments : FirstMatch(args.fields, args.path[j]) = 0}

\* C26: the walk ends after at most |path| calls, each for the segment after
\* the one of its caller (no segment is searched twice, so no later field is
\* tried after a nested call returned none); a field is returned only if every
\* segment is the identifier of some field of the list, and it is the first
\* field whose identifier is the last segment; none is returned for an empty
\* path, for a start index at or past the end of the path, and at the first
\* segment that matches no field.
C26_BoundedFirstMatch ==
    /\ Len(log) <= MaxOf({1, Len(args.path) - args.index})
    /\ Len(log) - 1 <= Len(args.path)
    /\ \A k \in 1..Len(log) : log[k].index = args.index + k - 1
    /\ pc = "walk" => ENABLED Walk
    /\ pc = "walked" =>
          /\ result # NoField =>
                /\ Segments # {}
                /\ Unmatched = {}
                /\ result \in {args.fields[i] : i \in 1..Len(args.fields)}
                /\ result.identifier = args.path[Len(args.path)]
                /\ \A i \in 1..Len(args.fields) :
                      args.fields[i].identifier = args.path[Len(args.path)] =>
                          result.at[1] <= i
          /\ Segments = {} => result = NoField /\ Len(log) = 1
          /\ Unmatched # {} => result = NoField /\ Len(log) = MinOf(Unmatched) - args.index
          /\ Segments # {} /\ Unmatched = {} => result # NoField

\* A path of three segments walked from its start in three calls: the last
\* segment names two fields of the list and the first of them is returned.
C26_Witness ==
    /\ pc = "walked"
    /\ args.index = 0
    /\ Len(args.path) = MaxPath
    /\ Len(log) = MaxPath
    /\ Len(args.fields) = 2
    /\ args.fields[1].identifier = args.fields[2].identifier
    /\ result = args.fields[1]

\* ---------------------------------------------------------------------- C22
SetCalls == {i \in 1..Len(calls) : calls[i].op = "set_output_path"}
Compiled == pc = "compiled" /\ calls[Len(calls)].op = "compile"

\* C22: when set_output_path was given a directory, in whichever typestate,
\* the file compile writes is named rasn_generated.rs.
C22_NamedRasnGenerated ==
    Compiled /\ result.ok =>
        \A i \in SetCalls :
            is_dir(args, calls[i].arg) =>
                /\ written # NoPath
                /\ written[Len(written)] = "rasn_generated.rs"

\* ---------------------------------------------------------------------- C24
\* What a call contributes to the sources.
SourcesOf(call) ==
    CASE call.op = "add_asn_by_path" -> <<Path(call.arg)>>
      [] call.op = "add_asn_sources_by_path" -> [i \in 1..Len(call.arg) |-> Path(call.arg[i])]
      [] call.op = "add_asn_literal" -> <<Literal(call.arg)>>
      [] OTHER -> <<>>

\* The sources of the first n calls, in call order.
RECURSIVE SourcesAdded(_)
SourcesAdded(n) == IF n = 0 THEN <<>> ELSE SourcesAdded(n - 1) \o SourcesOf(calls[n])

\* The typestate after the calls made so far.
StateOfCalls ==
    IF AddCalls = {}
    THEN IF SetCalls = {} THEN "MissingParams" ELSE "OutputSet"
    ELSE IF SetCalls = {} THEN "SourcesSet" ELSE "Ready"

\* C24: set_output_path is called at most once; the typestate tells whether
\* an add_* call and whether set_output_path has happened; the source list is
\* the sources added, in call order; compile can be called only after at least
\* one add_* call and set_output_path; and once the output path is set no
\* later call changes it.
C24_Accumulates ==
    /\ [](/\ Cardinality(SetCalls) <= 1
          /\ builder.state = StateOfCalls
          /\ builder.state \in {"SourcesSet", "Ready"} =>
                builder.sources = SourcesAdded(Len(calls))
          /\ ENABLED Compile => AddCalls # {} /\ SetCalls # {}
          /\ Compiled => AddCalls # {} /\ SetCalls # {})
    /\ [][builder.state \in {"OutputSet", "Ready"} =>
              /\ builder'.state = "Ready"
              /\ builder'.output_path = builder.output_path]_vars

\* compile ran after a literal, set_output_path, a call with two paths and a
\* call with one: the four sources are there in that order.
C24_Witness ==
    /\ Compiled
    /\ result.ok
    /\ Len(calls) = 5
    /\ calls[1].op = "add_asn_literal"
    /\ calls[2].op = "set_output_path"
    /\ calls[3].op = "add_asn_sources_by_path"
    /\ calls[4].op = "add_asn_by_path"
    /\ Len(builder.sources) = 4
    /\ builder.sources[1].source = "Literal"
    /\ builder.output_path = calls[2].arg

====
